---- MODULE Spec2Model ----
(***************************************************************************)
(* A model of rockphypy: the effective-medium module                       *)
(* (src/rockphypy/EM.py) with the Voigt-Reuss-Hill and Hashin-Shtrikman    *)
(* primitives, the shape-factor evaluator PQ_vectorize, the two solvers    *)
(* built on scipy's fsolve (Berrymann_sc, OConnell_Budiansky_fl), the dry  *)
(* O'Connell-Budiansky formula and Hudson's cracked media; the granular    *)
(* models of src/rockphypy/GM.py (hertzmindlin, softsand, johnson, Digby,  *)
(* contactcement, MUHS, pcm and the critical-porosity mixing); and         *)
(* zoeppritz of src/rockphypy/AVO.py.                                      *)
(* A behaviour is one call of one of these functions; the calls that go    *)
(* through fsolve take several steps, one per evaluation of the function   *)
(* handed to it.                                                           *)
(*                                                                         *)
(* Numbers.  A float is modelled by an exact rational <<n, d>> in lowest   *)
(* terms with d > 0, extended by the IEEE values the code can produce:     *)
(* <<1, 0>> is +inf, <<-1, 0>> is -inf and <<0, 0>> is "no number" (NaN    *)
(* under numpy, a raised ZeroDivisionError under Python scalars).  This    *)
(* arithmetic is exact: the rounding of IEEE doubles is not modelled, and  *)
(* an equality there is an equality of real numbers.  Functions with       *)
(* roots and trigonometry (PQ_vectorize, johnson, Digby, zoeppritz) are    *)
(* evaluated in decimal fixed point with four digits, from tabulated       *)
(* values.  Where a property is about the last bit of a result (VRH of a   *)
(* single phase, softsand at the critical porosity, HS at a pure phase,    *)
(* MUHS against contactcement) the function is evaluated in IEEE           *)
(* double arithmetic: a double is a sign, a 53-bit mantissa and an         *)
(* exponent, and every operation is computed exactly and then rounded to   *)
(* nearest, ties to even.                                                  *)
(***************************************************************************)
EXTENDS Integers, Sequences, FiniteSets

VARIABLES
    call,    \* the call in progress or last made: its function and arguments
    ret,     \* what that call returned to its caller
    Alpha,   \* the caller-owned aspect-ratio array (a numpy array object)
    pc,      \* "idle", "fsolve" while the root finder iterates, then "solved"
    x,       \* fsolve: the current iterate
    fvec,    \* fsolve: the residual at x
    trial,   \* fsolve: the last point its function was evaluated at
    ftrial,  \* fsolve: the residual the function returned there
    nfev,    \* fsolve: number of function evaluations so far
    ier,     \* fsolve: its termination flag (1: converged)
    exc      \* the exception the call ended with, "none" if it returned

vars == <<call, ret, Alpha, pc, x, fvec, trial, ftrial, nfev, ier, exc>>

-----------------------------------------------------------------------------
(* Bounds of the model *)

\* largest number of phases of a mixture
MaxPhases == 2
\* moduli are the integers 0 .. MaxModulus (GPa)
MaxModulus == 3
\* volume fractions are the multiples of 1/FracDen in [0, 1]
FracDen == 4
\* function evaluations fsolve may spend (scipy: 200*(n+1))
MaxFev == 3
\* crack densities are the multiples of 1/10 up to MaxCrd/10
MaxCrd == 4

-----------------------------------------------------------------------------
(* Extended rational arithmetic: what +, -, *, / and **-1 do to floats *)

Abs(i) == IF i < 0 THEN -i ELSE i

Sgn(i) == IF i < 0 THEN -1 ELSE IF i > 0 THEN 1 ELSE 0

RECURSIVE GCD(_, _)
GCD(a, b) == IF b = 0 THEN a ELSE GCD(b, a % b)

\* the rational n/d (d # 0) in lowest terms
Rat(n, d) ==
    LET g == GCD(Abs(n), Abs(d))
    IN  IF d < 0 THEN <<(-n) \div g, (-d) \div g>> ELSE <<n \div g, d \div g>>

Num(i) == <<i, 1>>

Zero == <<0, 1>>

One == <<1, 1>>

NaN == <<0, 0>>

IsNaN(a) == a = NaN

IsFinite(a) == a[2] # 0

IsInf(a) == a[2] = 0 /\ a[1] # 0

Neg(a) == <<-a[1], a[2]>>

Add(a, b) ==
    IF IsNaN(a) \/ IsNaN(b) THEN NaN
    ELSE IF IsInf(a) THEN (IF IsInf(b) /\ b # a THEN NaN ELSE a)
    ELSE IF IsInf(b) THEN b
    ELSE LET g == GCD(a[2], b[2])
         IN  Rat(a[1] * (b[2] \div g) + b[1] * (a[2] \div g), (a[2] \div g) * b[2])

Sub(a, b) == Add(a, Neg(b))

Mul(a, b) ==
    IF IsNaN(a) \/ IsNaN(b) THEN NaN
    ELSE IF IsInf(a) \/ IsInf(b)
         THEN <<Sgn(a[1]) * Sgn(b[1]), 0>>      \* inf * 0 is NaN
    ELSE LET g1 == GCD(Abs(a[1]), b[2])
             g2 == GCD(Abs(b[1]), a[2])
         IN  <<(a[1] \div g1) * (b[1] \div g2), (a[2] \div g2) * (b[2] \div g1)>>

\* numpy's division: x/0 is an infinity, 0/0 is NaN (with a RuntimeWarning)
Div(a, b) ==
    IF IsNaN(a) \/ IsNaN(b) THEN NaN
    ELSE IF IsInf(b) THEN (IF IsInf(a) THEN NaN ELSE Zero)
    ELSE IF b[1] = 0 THEN <<Sgn(a[1]), 0>>
    ELSE IF IsInf(a) THEN <<Sgn(a[1]) * Sgn(b[1]), 0>>
    ELSE Mul(a, Rat(b[2], b[1]))

\* Python's division of int/float scalars: a zero divisor raises
PyDiv(a, b) == IF IsNaN(a) \/ IsNaN(b) \/ b[1] = 0 THEN NaN ELSE Mul(a, Rat(b[2], b[1]))

\* a / b for numpy operands (np) or for Python scalars
Quot(a, b, np) == IF np THEN Div(a, b) ELSE PyDiv(a, b)

Less(a, b) == IsFinite(a) /\ IsFinite(b) /\ a[1] * b[2] < b[1] * a[2]

Leq(a, b) == IsFinite(a) /\ IsFinite(b) /\ a[1] * b[2] <= b[1] * a[2]

-----------------------------------------------------------------------------
(* Input domains *)

Moduli == {Num(i) : i \in 0..MaxModulus}

PosModuli == {Num(i) : i \in 1..MaxModulus}

Fractions == {Rat(i, FracDen) : i \in 0..FracDen}

Booleans == {TRUE, FALSE}

\* the phases of a composite: a fluid (K = 1, G = 0) and solids with G = K - 1
Kinds == {<<Num(i), Num(i - 1)>> : i \in 1..MaxModulus}

\* volume fractions given to the self-consistent solver
Weights == {Rat(1, FracDen), Rat(FracDen - 1, FracDen)}

\* matrix moduli PQ_vectorize is called with directly
MatrixPoints == {<<Num(k), Num(g)>> : k \in 1..MaxModulus, g \in 1..2}

\* the fluid and the crack shape of the saturated O'Connell-Budiansky model
Kfl == One

CrackAspect == Rat(1, 10)

-----------------------------------------------------------------------------
(* VRH: EM.py lines 17-34 *)

\* np.dot of two 1-d arrays of the same length
RECURSIVE DotTo(_, _, _)
DotTo(a, b, n) == IF n = 0 THEN Zero ELSE Add(DotTo(a, b, n - 1), Mul(a[n], b[n]))

dot(a, b) == DotTo(a, b, Len(a))

\* 1/M, elementwise
Reciprocal(M) == [i \in 1..Len(M) |-> Div(One, M[i])]

\* variant: the Hill average without its factor 0.5
VRH_HillSum(volumes, M) ==
    LET M_v == dot(volumes, M)
        M_r == Div(One, dot(volumes, Reciprocal(M)))
    IN  <<M_v, M_r, Add(M_r, M_v)>>

\* variant: the triple returned Reuss first
VRH_ReussFirst(volumes, M) ==
    LET M_v == dot(volumes, M)
        M_r == Div(One, dot(volumes, Reciprocal(M)))
    IN  <<M_r, M_v, Mul(Rat(1, 2), Add(M_r, M_v))>>

VRH(volumes, M) ==
    LET M_v == dot(volumes, M)
        M_r == Div(One, dot(volumes, Reciprocal(M)))
        M_h == Mul(Rat(1, 2), Add(M_r, M_v))
    IN  <<M_v, M_r, M_h>>

-----------------------------------------------------------------------------
(* HS: EM.py lines 78-102 *)

\* an exception raised anywhere in a function leaves no result at all
Raised(t) == \E i \in 1..Len(t) : IsNaN(t[i])

PyResult(t, np) == IF ~np /\ Raised(t) THEN [i \in 1..Len(t) |-> NaN] ELSE t

\* a**-1
Inv(a, np) == Quot(One, a, np)

\* 4*G/3
FourThirds(G, np) == Quot(Mul(Num(4), G), Num(3), np)

\* lines 93-96: the branch bound == 'upper'
HSUpper(f, K1, K2, G1, G2, np) ==
    LET K == Add(K1, Quot(Sub(One, f),
                          Add(Inv(Sub(K2, K1), np),
                              Mul(f, Inv(Add(K1, FourThirds(G1, np)), np))), np))
        Temp == Quot(Add(K1, Mul(Num(2), G1)),
                     Mul(Mul(Num(5), G1), Add(K1, FourThirds(G1, np))), np)
        G == Add(G1, Quot(Sub(One, f),
                          Add(Inv(Sub(G2, G1), np), Mul(Mul(Num(2), f), Temp)), np))
    IN  PyResult(<<K, G>>, np)

\* lines 98-101: the other branch
HSLower(f, K1, K2, G1, G2, np) ==
    LET K == Add(K2, Quot(f,
                          Add(Inv(Sub(K1, K2), np),
                              Mul(Sub(One, f), Inv(Add(K2, FourThirds(G2, np)), np))), np))
        Temp == Quot(Add(K2, Mul(Num(2), G2)),
                     Mul(Mul(Num(5), G2), Add(K2, FourThirds(G2, np))), np)
        G == Add(G2, Quot(f,
                          Add(Inv(Sub(G1, G2), np), Mul(Mul(Num(2), Sub(One, f)), Temp)), np))
    IN  PyResult(<<K, G>>, np)

\* variant: the argument bound ignored
HS_UpperOnly(f, K1, K2, G1, G2, bound, np) == HSUpper(f, K1, K2, G1, G2, np)

HS(f, K1, K2, G1, G2, bound, np) ==
    IF bound = "upper" THEN HSUpper(f, K1, K2, G1, G2, np) ELSE HSLower(f, K1, K2, G1, G2, np)

-----------------------------------------------------------------------------
(* PQ_vectorize: EM.py lines 378-426 *)

\* The polynomial of lines 405-421 is evaluated in decimal fixed point: a value
\* v is held as the integer nearest zero to v*Scale, and every product and
\* quotient is truncated to that grid, as a float operation is rounded to its
\* own.  Sums and differences of grid values are exact.
Scale == 100 * 100

\* a*b on the grid, by halves so that no partial product leaves the integers
FxMul(a, b) ==
    LET xh == Abs(a) \div Scale
        xl == Abs(a) % Scale
        yh == Abs(b) \div Scale
        yl == Abs(b) % Scale
    IN  Sgn(a) * Sgn(b) * (xh * yh * Scale + xh * yl + xl * yh + (xl * yl) \div Scale)

\* a/b on the grid (b # 0), by long division in base 100
FxDiv(a, b) ==
    LET q == Abs(a) \div Abs(b)
        r == Abs(a) % Abs(b)
        q1 == (r * 100) \div Abs(b)
        r1 == (r * 100) % Abs(b)
        q2 == (r1 * 100) \div Abs(b)
    IN  Sgn(a) * Sgn(b) * (q * Scale + q1 * 100 + q2)

\* a finite rational on the grid, and a grid value as a rational
Fx(a) == FxDiv(a[1], a[2])

Unfx(v) == Rat(v, Scale)

\* the value line 398 stores for an aspect ratio of exactly 1
Clamp == <<999, 1000>>

\* np.sqrt, **0.5 and **(3/2), np.arccos, np.cosh and np.arccosh are not
\* rational: each is tabulated on the grid, at the grid values the inputs of the
\* model lead to, as the float64 value cut to the grid.

\* np.sqrt and **0.5
FxSqrt(v) ==
    CASE v = 2500 -> 5000
      [] v = 7500 -> 8660
      [] v = 10000 -> 10000
      [] v = 12500 -> 11180
      [] v = 20000 -> 14142
      [] v = 30000 -> 17320
      [] v = 40000 -> 20000
      [] v = 50000 -> 22360

\* v**(3/2)
FxPow32(v) ==
    CASE v = 2500 -> 1250
      [] v = 7500 -> 6495
      [] v = 10000 -> 10000
      [] v = 12500 -> 13975
      [] v = 20000 -> 28284
      [] v = 30000 -> 51961
      [] v = 50000 -> 111803

\* np.arccos
FxArccos(v) ==
    CASE v = 5000 -> 10471

\* np.cosh
FxCosh(v) ==
    CASE v = 20000 -> 37621

\* np.arccosh, which the source does not call
C13_Arccosh(v) ==
    CASE v = 20000 -> 13169

\* line 400, the right-hand side for one entry below 1
ThetaOblate(a) ==
    FxMul(FxDiv(a, FxPow32(Scale - FxMul(a, a))),
          FxArccos(a) - FxMul(a, FxSqrt(Scale - FxMul(a, a))))

\* line 402, the right-hand side for one entry above 1: the term subtracted is
\* np.cosh(alpha_)**-1, the reciprocal of the hyperbolic cosine
ThetaProlate(a) ==
    FxMul(FxDiv(a, FxPow32(FxMul(a, a) - Scale)),
          FxMul(a, FxSqrt(FxMul(a, a) - Scale)) - FxDiv(Scale, FxCosh(a)))

\* Lines 400-402.  At 0.999, the value line 398 stores, 1 - alpha_**2 is below
\* 0.002 and its 3/2 power below the grid: there theta is tabulated as the
\* value line 400 has in float64.  np.empty leaves theta unset where alpha_ is
\* neither below nor above 1; line 398 leaves no such entry.
theta(alpha_) ==
    IF alpha_ = Clamp THEN 6664
    ELSE IF Fx(alpha_) < Scale THEN ThetaOblate(Fx(alpha_))
    ELSE ThetaProlate(Fx(alpha_))

\* Line 404, f = alpha_**2*(3*theta - 2)/(1 - alpha_**2), tabulated likewise: at
\* 0.999 the expression cancels to three digits and cannot be followed on the
\* grid.
fshape(alpha_) ==
    CASE alpha_ = <<1, 2>> -> -1939
      [] alpha_ = Clamp -> -3997
      [] alpha_ = <<2, 1>> -> -22574

\* the aspect ratios a caller passes: oblate, spherical, prolate
AspectRatios == {<<1, 2>>, One, <<2, 1>>}

\* Lines 405-421 for one phase: the general spheroid P and Q.  A matrix of zero
\* shear modulus makes Gi/Gm 0/0 or x/0 at line 405 and P, Q are NaN; so is the
\* result here should a divisor of lines 418-419 vanish.  The lines are taken
\* from the last to the first, each a definition of its own.

\* lines 420-421: P = Tiijj/3 and Q = (Tijij - P)/5, with Tijij = Tiijj/3 + rest
TensorPQ(Tiijj, rest) ==
    LET o == Scale
        P == FxDiv(Tiijj, 3 * o)
        Tijij == FxDiv(Tiijj, 3 * o) + rest
        Q == FxDiv(Tijij - P, 5 * o)
    IN  <<Unfx(P), Unfx(Q)>>

\* variant: Tiijj = F1/F2, the factor 3 of line 418 left out
Tensors_NoFactor(F1, F2, F3, F4, F5, F6, F7, F8, F9) ==
    IF F2 = 0 \/ F3 = 0 \/ F4 = 0 \/ FxMul(F2, F4) = 0 THEN <<NaN, NaN>>
    ELSE TensorPQ(FxDiv(F1, F2),
                  FxDiv(2 * Scale, F3) + FxDiv(Scale, F4)
                  + FxDiv(FxMul(F4, F5) + FxMul(F6, F7) - FxMul(F8, F9),
                          FxMul(F2, F4)))

\* lines 418-421: Tiijj = 3*F1/F2, Tijij, P and Q from F1..F9
Tensors(F1, F2, F3, F4, F5, F6, F7, F8, F9) ==
    IF F2 = 0 \/ F3 = 0 \/ F4 = 0 \/ FxMul(F2, F4) = 0 THEN <<NaN, NaN>>
    ELSE TensorPQ(FxDiv(3 * F1, F2),
                  FxDiv(2 * Scale, F3) + FxDiv(Scale, F4)
                  + FxDiv(FxMul(F4, F5) + FxMul(F6, F7) - FxMul(F8, F9),
                          FxMul(F2, F4)))

\* lines 408-417: F1..F9 from A, B, R, theta and f
Eshelby(A, B, R, th, f) ==
    Tensors(
        Scale + FxMul(A, FxMul(Fx(<<3, 2>>), f + th)
                         - FxMul(R, FxMul(Fx(<<3, 2>>), f) + FxMul(Fx(<<5, 2>>), th)
                                    - Fx(<<4, 3>>))),
        Scale + FxMul(A, Scale + FxMul(Fx(<<3, 2>>), f + th)
                         - FxMul(R, FxMul(Fx(<<3, 2>>), f) + FxMul(Fx(<<5, 2>>), th)))
              + FxMul(B, 3 * Scale - 4 * R)
              + FxMul(FxMul(FxMul(A, A + 3 * B), Fx(<<3, 2>>) - 2 * R),
                      f + th - FxMul(R, f - th + 2 * FxMul(th, th))),
        Scale + FxMul(A, Scale - f - FxMul(Fx(<<3, 2>>), th) + FxMul(R, f + th)),
        Scale + FxMul(FxDiv(A, 4 * Scale), f + 3 * th - FxMul(R, f - th)),
        FxMul(A, -f + FxMul(R, f + th - Fx(<<4, 3>>)))
              + FxMul(FxMul(B, th), 3 * Scale - 4 * R),
        Scale + FxMul(A, Scale + f - FxMul(R, f + th))
              + FxMul(FxMul(B, Scale - th), 3 * Scale - 4 * R),
        2 * Scale + FxMul(FxDiv(A, 4 * Scale),
                          3 * f + 9 * th - FxMul(R, 3 * f + 5 * th))
              + FxMul(FxMul(B, th), 3 * Scale - 4 * R),
        FxMul(A, Scale - 2 * R + FxMul(FxDiv(f, 2 * Scale), R - Scale)
                       + FxMul(FxDiv(th, 2 * Scale), 5 * R - 3 * Scale))
              + FxMul(FxMul(B, Scale - th), 3 * Scale - 4 * R),
        FxMul(A, FxMul(R - Scale, f) - FxMul(R, th))
              + FxMul(FxMul(B, th), 3 * Scale - 4 * R))

\* lines 405-407: A, B and R, then the rest
GeneralPQ(Km, Gm, Ki, Gi, a) ==
    IF ~IsFinite(Km) \/ ~IsFinite(Gm) \/ Km[1] = 0 \/ Gm[1] = 0 THEN <<NaN, NaN>>
    ELSE Eshelby(FxDiv(Fx(Gi), Fx(Gm)) - Scale,
                 FxDiv(FxDiv(Fx(Ki), Fx(Km)) - FxDiv(Fx(Gi), Fx(Gm)), 3 * Scale),
                 FxDiv(Fx(Gm), Fx(Km) + FxMul(Fx(<<4, 3>>), Fx(Gm))),
                 theta(a), fshape(a))

\* lines 423-425 for one phase: the closed forms of a sphere
SpherePQ(Km, Gm, Ki, Gi) ==
    LET kesai == Div(Mul(Div(Gm, Num(6)), Add(Mul(Num(9), Km), Mul(Num(8), Gm))),
                     Add(Km, Mul(Num(2), Gm)))
    IN  <<Div(Add(Km, Div(Mul(Num(4), Gm), Num(3))), Add(Ki, Div(Mul(Num(4), Gm), Num(3)))),
          Div(Add(Gm, kesai), Add(Gi, kesai))>>

\* Line 397, alpha_ = alpha, binds a second name to the caller's array; line 398
\* then stores 0.999 through it.  What the array holds after line 398:
ClampOnes(alpha) == [i \in 1..Len(alpha) |-> IF alpha[i] = One THEN Clamp ELSE alpha[i]]

\* The array the name alpha denotes after lines 397-398.  alpha_ and alpha are
\* one object, so the caller's array reads the clamped values from then on.
AlphaAfter(alpha) == ClampOnes(alpha)

\* line 426: the arrays P and Q of the per-phase pairs, and the state the call
\* leaves the caller's array in
Unzip(PQ, after) ==
    [P |-> [i \in DOMAIN PQ |-> PQ[i][1]],
     Q |-> [i \in DOMAIN PQ |-> PQ[i][2]],
     alpha |-> after,
     exc |-> "none"]

\* What arrays of different lengths lead to.  theta has Ki.size entries (line
\* 396) and is indexed by a mask of alpha's shape at lines 400 and 402; Ki and Gi
\* are combined at line 406, where numpy broadcasts a length-1 array and rejects
\* any other mismatch; P and Q then have the longer shape and are indexed by the
\* mask at line 423, and Gi is at line 425.  A boolean mask of another length
\* than the array it indexes raises IndexError.
PQShape(Ki, Gi, alpha) ==
    IF Len(alpha) # Len(Ki) THEN "IndexError"
    ELSE IF Len(Gi) = Len(Ki) THEN "none"
    ELSE IF Len(Gi) > 1 /\ Len(Ki) > 1 THEN "ValueError"
    ELSE "IndexError"

\* alpha == 1 at lines 423 and 425 reads the array as line 398 left it
PQ_vectorize(Km, Gm, Ki, Gi, alpha) ==
    IF PQShape(Ki, Gi, alpha) # "none"
    THEN [P |-> <<>>, Q |-> <<>>, alpha |-> AlphaAfter(alpha),
          exc |-> PQShape(Ki, Gi, alpha)]
    ELSE
    Unzip([i \in 1..Len(Ki) |->
             IF AlphaAfter(alpha)[i] = One THEN SpherePQ(Km, Gm, Ki[i], Gi[i])
             ELSE GeneralPQ(Km, Gm, Ki[i], Gi[i], ClampOnes(alpha)[i])],
          AlphaAfter(alpha))

-----------------------------------------------------------------------------
(* Berrymann_sc and Berrymann_func: EM.py lines 361-376 and 427-447 *)

\* np.sum of a 1-d array
RECURSIVE SumTo(_, _)
SumTo(a, n) == IF n = 0 THEN Zero ELSE Add(SumTo(a, n - 1), a[n])

Sum(a) == SumTo(a, Len(a))

\* ndarray.mean()
Mean(a) == Div(Sum(a), Num(Len(a)))

\* numpy's broadcasting of 1-d arrays: equal lengths, or one of them of length 1
Broadcastable(a, b) == Len(a) = Len(b) \/ Len(a) = 1 \/ Len(b) = 1

\* entry i of an array stretched to the broadcast length
At(a, i) == IF Len(a) = 1 THEN a[1] ELSE a[i]

\* X*(M - M_sc)*PQ, elementwise and left to right
Weighted(X, M, M_sc, PQ) ==
    [i \in 1..(IF Len(X) > Len(M) THEN Len(X) ELSE Len(M)) |->
        Mul(Mul(At(X, i), Sub(At(M, i), M_sc)), At(PQ, i))]

\* lines 445-447: the two residuals from P and Q
Residuals(params, K, G, X, pq) ==
    IF pq.exc # "none" THEN [eqs |-> <<>>, alpha |-> pq.alpha, exc |-> pq.exc]
    ELSE IF ~Broadcastable(X, K)
    THEN [eqs |-> <<>>, alpha |-> pq.alpha, exc |-> "ValueError"]
    ELSE [eqs |-> <<Sum(Weighted(X, K, params[1], pq.P)),
                    Sum(Weighted(X, G, params[2], pq.Q))>>,
          alpha |-> pq.alpha,
          exc |-> "none"]

\* variant: the volume fractions left out of the residuals
Berrymann_func_Unweighted(params, K, G, X, alpha) ==
    Residuals(params, K, G, [i \in 1..Len(X) |-> One],
              PQ_vectorize(params[1], params[2], K, G, alpha))

\* the residuals at params, and what the evaluation leaves in the array Alpha
Berrymann_func(params, K, G, X, alpha) ==
    Residuals(params, K, G, X, PQ_vectorize(params[1], params[2], K, G, alpha))

\* variant: np.sum in place of mean()
InitialGuess_Sum(K, G) == <<Sum(K), Sum(G)>>

\* line 375: the point fsolve is started from
InitialGuess(K, G) == <<Mean(K), Mean(G)>>

-----------------------------------------------------------------------------
(* OConnell_Budiansky: EM.py lines 450-466 *)

\* crack densities of the model: 0, 1/10, ...
CrackDensities == {Rat(i, 10) : i \in 0..MaxCrd}

\* line 461: Poisson's ratio of the uncracked solid
nu0Of(K0, G0, np) ==
    Quot(Sub(Mul(Num(3), K0), Mul(Num(2), G0)), Add(Mul(Num(6), K0), Mul(Num(2), G0)), np)

OConnell_Budiansky(K0, G0, crd, np) ==
    LET nu0 == nu0Of(K0, G0, np)
        nu_eff == Mul(nu0, Sub(One, Quot(Mul(Num(16), crd), Num(9), np)))
        K_dry == Mul(K0, Sub(One,
                     Quot(Mul(Mul(Num(16), Sub(One, Mul(nu_eff, nu_eff))), crd),
                          Mul(Num(9), Sub(One, Mul(Num(2), nu_eff))), np)))
        G_dry == Mul(G0, Sub(One,
                     Quot(Mul(Mul(Mul(Num(32), Sub(One, nu_eff)), Sub(Num(5), nu_eff)), crd),
                          Mul(Num(45), Sub(Num(2), nu_eff)), np)))
    IN  PyResult(<<K_dry, G_dry>>, np)

-----------------------------------------------------------------------------
(* OConnell_Budiansky_fl and OC_R_funcs: EM.py lines 468-511 *)

\* np.pi, to the accuracy of the model's rationals
Pi == <<22, 7>>

\* line 488: the point fsolve is started from, (0.2, 0.9)
OCInitialGuess == <<Rat(1, 5), Rat(9, 10)>>

\* lines 508-510; params are numpy floats, so every quotient is numpy's
OC_R_funcs(params, crd, nu_0, w) ==
    LET nu_eff == params[1]
        D == params[2]
        c == Div(Num(9), Num(16))
        t == Div(Mul(c, Sub(One, Mul(Num(2), nu_eff))), Sub(One, Mul(nu_0, nu_0)))
        eq1 == Sub(Div(Mul(Div(Mul(Div(Num(45), Num(16)), Sub(nu_0, nu_eff)),
                               Sub(One, Mul(nu_eff, nu_eff))),
                           Sub(Num(2), nu_eff)),
                       Sub(Mul(Mul(D, Add(One, Mul(Num(3), nu_0))), Sub(Num(2), nu_eff)),
                           Mul(Num(2), Sub(One, Mul(Num(2), nu_0))))),
                   crd)
        eq2 == Add(Sub(Mul(crd, Mul(D, D)),
                       Mul(Add(Add(crd, t), Div(Mul(Num(3), w), Mul(Num(4), Pi))), D)),
                   t)
    IN  <<eq1, eq2>>

\* lines 490-492: the saturated moduli at the point fsolve returned
OCSaturated(K0, G0, crd, sol) ==
    LET nu_eff == sol[1]
        D == sol[2]
        K_sat == Mul(K0, Sub(One,
                     Div(Mul(Mul(Mul(Num(16), Sub(One, Mul(nu_eff, nu_eff))), crd), D),
                         Mul(Num(9), Sub(One, Mul(Num(2), nu_eff))))))
        G_sat == Mul(G0, Sub(One,
                     Mul(Mul(Mul(Div(Num(32), Num(45)), Sub(One, nu_eff)),
                             Add(D, Div(Num(3), Sub(Num(2), nu_eff)))), crd)))
    IN  <<K_sat, G_sat>>

-----------------------------------------------------------------------------
(* scipy.optimize.fsolve (MINPACK hybrd), as its callers see it *)

\* The calls hybrd makes to its function, its iterate and its flag are kept; the
\* trust-region step that picks the next point is not: a trial point is any
\* point of a small set.  What is kept of the acceptance test is that a trial
\* point replaces the iterate only if its residual is finite and smaller in
\* norm, and of termination that info = 1 is set at once on a residual that is
\* exactly zero, cannot be set on a residual that is not finite, and that
\* info = 2 means the evaluations ran out.

IsZeroVec(v) == v[1] = Zero /\ v[2] = Zero

IsFiniteVec(v) == IsFinite(v[1]) /\ IsFinite(v[2])

\* enorm(v)**2
NormSq(v) == FxMul(Fx(v[1]), Fx(v[1])) + FxMul(Fx(v[2]), Fx(v[2]))

\* fnorm1 < fnorm: the residual new is an actual reduction of old
Reduces(new, old) == IsFiniteVec(new) /\ IsFiniteVec(old) /\ NormSq(new) < NormSq(old)

\* the termination flags of hybrd: converged, maxfev reached, no progress
Flags == {1, 2, 4, 5}

\* points the root finder tries besides its starting point
SCTrials == {<<Num(1), Num(1)>>, <<Rat(3, 2), Num(1)>>, <<Num(2), Num(2)>>}

OCTrials == {<<Rat(1, 4), One>>, <<Rat(1, 10), Rat(4, 5)>>}

Trials(c) == IF c.fn = "Berrymann_sc" THEN SCTrials ELSE OCTrials

\* the function handed to fsolve, with its args, evaluated at p
Func(c, p, alpha) ==
    IF c.fn = "Berrymann_sc"
    THEN Berrymann_func(p, c.K, c.G, c.X, alpha)
    ELSE [eqs |-> OC_R_funcs(p, c.crd, c.nu0, c.w), alpha |-> alpha, exc |-> "none"]

-----------------------------------------------------------------------------
(* hudson_ortho: EM.py lines 267-310 *)

\* Python values that are not numbers: a type object and a string
TypeObject(name) == [kind |-> "type", name |-> name]

Str(s) == [kind |-> "str", name |-> s]

\* a == b between such values: a type object never equals a string
PyEq(a, b) == a.kind = b.kind /\ a.name = b.name

\* a sequence argument: a Python list or a numpy array of three numbers
PyList(v) == [type |-> "list", v |-> v]

NdArray(v) == [type |-> "ndarray", v |-> v]

\* type(a)
TypeOf(a) == TypeObject(a.type)

\* the message of the exception line 284 raises
NeedArray == "need python array as input for alpha and crd"

\* the 6x6 matrix write_matrix builds, held as its nine independent entries
write_matrix(C11, C22, C33, C12, C13, C23, C44, C55, C66) ==
    <<C11, C22, C33, C12, C13, C23, C44, C55, C66>>

\* lines 286-290, for one crack set of aspect ratio a
HudsonLamda(K, G) == Sub(K, Div(Mul(Num(2), G), Num(3)))

HudsonU1(K, G, Gi, a) ==
    LET lamda == HudsonLamda(K, G)
        M == Div(Mul(Mul(Num(4), Gi), Add(lamda, G)),
                 Mul(Mul(Mul(Pi, a), G), Add(Mul(Num(3), lamda), Mul(Num(4), G))))
    IN  Div(Mul(Num(16), Add(lamda, Mul(Num(2), G))),
            Mul(Mul(Num(3), Add(Mul(Num(3), lamda), Mul(Num(4), G))), Add(One, M)))

HudsonU3(K, G, Ki, Gi, a) ==
    LET lamda == HudsonLamda(K, G)
        kapa == Div(Mul(Add(Ki, Div(Mul(Num(4), Gi), Num(3))), Add(lamda, Mul(Num(2), G))),
                    Mul(Mul(Mul(Pi, a), G), Add(lamda, G)))
    IN  Div(Mul(Num(4), Add(lamda, Mul(Num(2), G))),
            Mul(Mul(Num(3), Add(lamda, G)), Add(One, kapa)))

\* lines 293-309 for numpy arrays alpha and crd
OrthoStiffness(K, G, Ki, Gi, alpha, crd) ==
    LET lamda == HudsonLamda(K, G)
        l2G == Add(lamda, Mul(Num(2), G))
        U1 == [i \in 1..3 |-> HudsonU1(K, G, Gi, alpha[i])]
        U3 == [i \in 1..3 |-> HudsonU3(K, G, Ki, Gi, alpha[i])]
        C11_1 == [i \in 1..3 |-> Div(Mul(Mul(Neg(Mul(lamda, lamda)), crd[i]), U3[i]), G)]
        C13_1 == [i \in 1..3 |-> Div(Mul(Mul(Mul(Neg(lamda), l2G), crd[i]), U3[i]), G)]
        C33_1 == [i \in 1..3 |-> Div(Mul(Mul(Neg(Mul(l2G, l2G)), crd[i]), U3[i]), G)]
        C44_1 == [i \in 1..3 |-> Mul(Mul(Neg(G), crd[i]), U1[i])]
        C12_1 == C11_1
    IN  write_matrix(
            Add(Add(Add(l2G, C33_1[1]), C11_1[2]), C11_1[3]),
            Add(Add(Add(l2G, C11_1[1]), C33_1[2]), C11_1[3]),
            Add(Add(Add(l2G, C11_1[1]), C11_1[2]), C33_1[3]),
            Add(Add(Add(lamda, C13_1[1]), C13_1[2]), C12_1[3]),
            Add(Add(Add(lamda, C13_1[1]), C12_1[2]), C13_1[3]),
            Add(Add(Add(lamda, C12_1[1]), C13_1[2]), C13_1[3]),
            Add(Add(G, C44_1[2]), C44_1[3]),
            Add(Add(G, C44_1[1]), C44_1[3]),
            Add(Add(G, C44_1[1]), C44_1[2]))

\* The whole function.  np tells whether K and G are numpy scalars.  Line 287
\* multiplies the Python float np.pi by alpha, which a list does not support;
\* line 293 multiplies -lamda**2 by crd, which a list supports only when lamda
\* is a numpy scalar (the list is then converted to an array).
hudson_ortho(K, G, Ki, Gi, alpha, crd, np) ==
    IF PyEq(TypeOf(alpha), Str("list")) \/ PyEq(TypeOf(crd), Str("list"))
    THEN [exc |-> NeedArray, C |-> <<>>]
    ELSE IF alpha.type = "list" \/ (crd.type = "list" /\ ~np)
    THEN [exc |-> "TypeError", C |-> <<>>]
    ELSE [exc |-> "none", C |-> OrthoStiffness(K, G, Ki, Gi, alpha.v, crd.v)]

\* the arrays the crack models are called with
CrackAspects == {<<Rat(1, 10), Rat(1, 10), Rat(1, 10)>>, <<Rat(1, 10), Rat(1, 5), Rat(1, 10)>>}

CrackSets == {<<Zero, Zero, Zero>>, <<Rat(1, 10), Zero, Rat(1, 20)>>}

Sequences3(S) == {PyList(v) : v \in S} \cup {NdArray(v) : v \in S}

-----------------------------------------------------------------------------
(* johnson: GM.py lines 136-196 *)

\* The strains enter through square roots, a logarithm and 3/2 powers; like
\* the polynomial of PQ_vectorize the function is evaluated on the grid, with
\* the tables of np.sqrt and **(3/2) above and one of np.log.

\* np.pi on the grid
FxPi == 31415

\* np.log
FxLog(v) ==
    CASE v = 32360 -> 11743
      [] v = 24142 -> 8813
      [] v = 21180 -> 7504

\* utils.poi: Poisson's ratio from bulk and shear modulus
poi(K0, G0) ==
    FxDiv(3 * Fx(K0) - 2 * Fx(G0), 6 * Fx(K0) + 2 * Fx(G0))

\* the VTI matrix write_VTI_matrix builds, held as its five independent entries
write_VTI_matrix(C11, C33, C13, C44, C66) == <<C11, C33, C13, C44, C66>>

\* the values of path the docstring lists (lines 148-151), and the third value
\* as line 192 spells it
DocumentedPaths == {"together", "uni_iso", "iso_uni"}

Paths == DocumentedPaths \cup {"iso-uni"}

\* lines 186-194: the branch taken and the stresses it assigns; no branch
\* matches any other path, and sigma33 and sigma11 stay unbound
JohnsonStress(Cn, Ct, alpha, I0, I2, I4, Temp, path) ==
    LET a2 == FxMul(alpha, alpha)
        a3 == FxMul(a2, alpha)
        t == FxMul(a2, I0) + FxMul(Scale - a2, I2) - I4
    IN  IF path = "together"
        THEN <<FxMul(2 * Temp, FxMul(Ct, I2 - I4) + FxMul(Cn, FxMul(a2, I2) + I4)),
               FxMul(Temp, FxMul(-Ct, I2 - I4) + FxMul(Cn, t))>>
        ELSE IF path = "uni_iso"
        THEN <<FxMul(2 * Temp, FxMul(Fx(<<1, 12>>), Ct) + FxMul(Cn, FxMul(a2, I2) + I4)),
               FxMul(Temp, FxMul(-Fx(<<1, 12>>), Ct) + FxMul(Cn, t))>>
        ELSE IF path = "iso-uni"
        THEN <<FxMul(2 * Temp, FxMul(Ct, t - FxDiv(2 * a3, 3 * Scale))
                               + FxMul(Cn, FxMul(a2, I2) + I4)),
               FxMul(Temp, FxMul(-Ct, t - FxDiv(2 * a3, 3 * Scale) + FxMul(Cn, t)))>>
        ELSE <<>>

\* lines 175-196: the stiffnesses, the stresses and what the return statement
\* finds; reading the unbound sigma33 raises UnboundLocalError
JohnsonResult(Cn, Ct, Bw, Cw, ga, ratio, alpha, I0, I2, I4, Temp, path) ==
    LET C == write_VTI_matrix(
                 FxMul(ga, FxDiv(4 * Bw, 3 * Scale) + FxDiv(2 * Cw, 5 * Scale)
                           + FxMul(ratio, FxDiv(2 * Bw, 15 * Scale) + FxDiv(Cw, 35 * Scale))),
                 FxMul(ga, FxMul(4 * Bw, I2) + FxMul(2 * Cw, I4)),
                 FxMul(FxMul(ga, Cw), I2 - I4),
                 FxMul(ga, FxMul(FxDiv(Bw, 2 * Scale), I0 + I2) + FxMul(Cw, I2 - I4)),
                 FxMul(ga, FxMul(Bw, I0 - I2) + FxMul(FxDiv(Cw, 4 * Scale), I0 - 2 * I2 + I4)))
        sigma == JohnsonStress(Cn, Ct, alpha, I0, I2, I4, Temp, path)
    IN  IF sigma = <<>> THEN [exc |-> "UnboundLocalError", ret |-> <<>>]
        ELSE [exc |-> "none", ret |-> <<C, sigma[1], sigma[2]>>]

\* lines 173 and 185
JohnsonI4(Cn, Ct, Bw, Cw, ga, n, phi, e, ratio, alpha, I0, I2, path) ==
    JohnsonResult(Cn, Ct, Bw, Cw, ga, ratio, alpha, I0, I2,
        FxMul(Fx(<<1, 6>>),
              FxPow32(Scale + FxMul(alpha, alpha)) - FxMul(3 * FxMul(alpha, alpha), I2)),
        FxDiv(FxMul(FxMul(-FxPow32(-e), Scale - phi), n),
              FxMul(4 * FxPi, FxMul(FxMul(alpha, alpha), alpha))),
        path)

\* line 172
JohnsonI2(Cn, Ct, Bw, Cw, ga, n, phi, e, ratio, alpha, I0, path) ==
    JohnsonI4(Cn, Ct, Bw, Cw, ga, n, phi, e, ratio, alpha, I0,
        FxMul(Fx(<<1, 4>>),
              FxPow32(Scale + FxMul(alpha, alpha)) - FxMul(FxMul(alpha, alpha), I0)),
        path)

\* lines 167-171; ga is gamma/alpha
JohnsonI0(Cn, Ct, n, phi, e, ratio, alpha, path) ==
    JohnsonI2(Cn, Ct,
        FxDiv(2 * Scale, FxMul(FxPi, Cn)),
        FxMul(FxDiv(4 * Scale, FxPi), FxDiv(Scale, Ct) - FxDiv(Scale, Cn)),
        FxDiv(FxMul(FxMul(FxMul(FxMul(FxMul(Fx(<<3, 32>>), Cn), Ct), n), Scale - phi),
                    FxSqrt(-e)),
              alpha),
        n, phi, e, ratio, alpha,
        FxMul(Fx(<<1, 2>>),
              FxSqrt(Scale + FxMul(alpha, alpha))
              + FxMul(FxMul(alpha, alpha),
                      FxLog(Scale + FxDiv(FxSqrt(Scale + FxMul(alpha, alpha)), alpha)))),
        path)

\* lines 164-166 and 170
johnson(K0, G0, n, phi, epsilon, epsilon_axial, path) ==
    JohnsonI0(FxDiv(4 * Fx(G0), Scale - poi(K0, G0)),
              FxDiv(8 * Fx(G0), 2 * Scale - poi(K0, G0)),
              Fx(n), Fx(phi), Fx(epsilon),
              FxDiv(Fx(epsilon), Fx(epsilon_axial)),
              FxSqrt(FxDiv(Fx(epsilon), Fx(epsilon_axial))),
              path)

\* strains (negative in compression), coordination numbers and porosities
Strains == {Rat(-1, 4), Num(-1)}

Coordination == {Num(6), Num(9)}

Porosities == {Rat(1, 4), Rat(2, 5)}

-----------------------------------------------------------------------------
(* hudson: EM.py lines 180-238 *)

\* the HTI counterpart of write_VTI_matrix, called with the stiffnesses of the
\* rotated medium
write_HTI_matrix(C11, C33, C13, C44, C55) == <<C11, C33, C13, C44, C55>>

\* lines 209-212: the first order corrections C11_1, C13_1, C33_1, C44_1
HudsonFirst(lamda, G, cU1, cU3) ==
    <<Div(Mul(Neg(Mul(lamda, lamda)), cU3), G),
      Div(Mul(Mul(Neg(lamda), Add(lamda, Mul(Num(2), G))), cU3), G),
      Div(Mul(Neg(Mul(Add(lamda, Mul(Num(2), G)), Add(lamda, Mul(Num(2), G)))), cU3), G),
      Mul(Neg(G), cU1)>>

\* line 215: q/15
HudsonQ15(lamda, G) ==
    Div(Add(Add(Div(Mul(Num(15), Mul(lamda, lamda)), Mul(G, G)),
                Div(Mul(Num(28), lamda), G)),
            Num(28)),
        Num(15))

\* lines 216-219: the second order corrections C11_2, C13_2, C33_2, C44_2
HudsonSecond(lamda, G, cU1, cU3, q15) ==
    <<Mul(Div(Mul(q15, Mul(lamda, lamda)), Add(lamda, Mul(Num(2), G))), Mul(cU3, cU3)),
      Mul(Mul(q15, lamda), Mul(cU3, cU3)),
      Mul(Mul(q15, Add(lamda, Mul(Num(2), G))), Mul(cU3, cU3)),
      Mul(Div(Mul(Mul(Rat(2, 15), G), Add(Mul(Num(3), lamda), Mul(Num(8), G))),
              Add(lamda, Mul(Num(2), G))),
          Mul(cU1, cU1))>>

\* lines 221-232: C11, C13, C33, C44, C66 of the isotropic background plus the
\* corrections d; <<>> when neither branch has assigned them
HudsonAssigned(lamda, G, d) ==
    <<Add(Add(lamda, Mul(Num(2), G)), d[1]), Add(lamda, d[2]),
      Add(Add(lamda, Mul(Num(2), G)), d[3]), Add(G, d[4]), G>>

HudsonSum(a, b) == [i \in 1..4 |-> Add(a[i], b[i])]

HudsonLocals(lamda, G, cU1, cU3, order) ==
    IF order = 1
    THEN HudsonAssigned(lamda, G, HudsonFirst(lamda, G, cU1, cU3))
    ELSE IF order = 2
    THEN HudsonAssigned(lamda, G,
                        HudsonSum(HudsonFirst(lamda, G, cU1, cU3),
                                  HudsonSecond(lamda, G, cU1, cU3,
                                               HudsonQ15(lamda, G))))
    ELSE <<>>

\* lines 234-238: reading C11 or returning C_eff without an assignment raises
HudsonReturn(C, axis) ==
    IF axis \in {1, 3} /\ C # <<>>
    THEN [exc |-> "none",
          C |-> IF axis = 3
                THEN write_VTI_matrix(C[1], C[3], C[2], C[4], C[5])
                ELSE write_HTI_matrix(C[3], C[1], C[2], C[5], C[4])]
    ELSE [exc |-> "UnboundLocalError", C |-> <<>>]

\* variant: the documented defaults order=1, axis=3 taken for any other value
hudson_Defaults(K, G, Ki, Gi, alpha, crd, order, axis) ==
    HudsonReturn(HudsonLocals(HudsonLamda(K, G), G,
                              Mul(crd, HudsonU1(K, G, Gi, alpha)),
                              Mul(crd, HudsonU3(K, G, Ki, Gi, alpha)),
                              IF order = 2 THEN 2 ELSE 1),
                 IF axis = 1 THEN 1 ELSE 3)

hudson(K, G, Ki, Gi, alpha, crd, order, axis) ==
    HudsonReturn(HudsonLocals(HudsonLamda(K, G), G,
                              Mul(crd, HudsonU1(K, G, Gi, alpha)),
                              Mul(crd, HudsonU3(K, G, Ki, Gi, alpha)), order),
                 axis)

\* the material in the cracks (Ki, Gi): none, the cracks are dry
CrackFills == {<<Zero, Zero>>}

\* orders and axes: the documented values and their neighbours
Orders == 0..3

Axes == 1..3

-----------------------------------------------------------------------------
(* cripor_reuss: EM.py lines 55-76 *)

\* np.dot(a, B) of a 1-d array a and a 2-d array B, given as its rows: the
\* length of a must be the number of rows of B, else numpy raises ValueError
\* ("shapes not aligned")
Aligned(a, B) == Len(a) = Len(B)

RECURSIVE ColumnTo(_, _, _, _)
ColumnTo(a, B, j, n) ==
    IF n = 0 THEN Zero ELSE Add(ColumnTo(a, B, j, n - 1), Mul(a[n], B[n][j]))

dot2(a, B) == [j \in 1..Len(B[1]) |-> ColumnTo(a, B, j, Len(a))]

\* 1/M for a 2-d array
Reciprocal2(B) == [i \in 1..Len(B) |-> Reciprocal(B[i])]

\* VRH (lines 29-34) when its second argument is a 2-d array
VRH2(volumes, M) ==
    IF ~Aligned(volumes, M) THEN [exc |-> "ValueError", ret |-> <<>>]
    ELSE [exc |-> "none",
          ret |-> <<dot2(volumes, M),
                    [j \in 1..Len(M[1]) |-> Div(One, dot2(volumes, Reciprocal2(M))[j])],
                    [j \in 1..Len(M[1]) |->
                        Mul(Rat(1, 2), Add(Div(One, dot2(volumes, Reciprocal2(M))[j]),
                                           dot2(volumes, M)[j]))]>>]

\* element [i] of what VRH returned, if it returned
Element(r, i) == IF r.exc = "none" THEN [exc |-> "none", ret |-> r.ret[i]] ELSE r

\* Lines 71-76.  The moduli are passed as VRH's volumes, and the fractions,
\* as the 1 x 2 array np.array([(1-phic, phic)]), as its M.
cripor_reuss(M0, Mf, phic, den) ==
    IF den = FALSE
    THEN Element(VRH2(<<M0, Mf>>, <<(<<Sub(One, phic), phic>>)>>), 2)
    ELSE Element(VRH2(<<M0, Mf>>, <<(<<Sub(One, phic), phic>>)>>), 1)

-----------------------------------------------------------------------------
(* zoeppritz: AVO.py lines 122-177 *)

\* The function is evaluated on the grid of PQ_vectorize.  An angle that comes
\* out of np.arcsin is held as its sine: np.sin gives that sine back, np.cos
\* is the root of 1 - sine^2, and np.arcsin of a value beyond 1 in magnitude is
\* NaN, which every later line hands on.

\* np.deg2rad: x*pi/180
deg2rad(deg) == FxDiv(FxMul(deg, FxPi), 180 * Scale)

\* np.sin at the arguments the model leads to, the float64 value cut to the
\* grid: the radians of 0, 30 and 60 degrees, and 30 and 60 taken as radians
FxSin(v) ==
    CASE v = 0 -> 0
      [] v = 5235 -> 4999
      [] v = 10471 -> 8660
      [] v = 30 * Scale -> -9880
      [] v = 60 * Scale -> -3048

\* np.cos at the radians of 0, 30 and 60 degrees
FxCos(v) ==
    CASE v = 0 -> Scale
      [] v = 5235 -> 8660
      [] v = 10471 -> 5000

\* the largest r in lo..hi-1 with r*r <= n, by bisection
RECURSIVE RootBetween(_, _, _)
RootBetween(n, lo, hi) ==
    IF hi - lo <= 1 THEN lo
    ELSE IF ((lo + hi) \div 2) * ((lo + hi) \div 2) <= n
         THEN RootBetween(n, (lo + hi) \div 2, hi)
         ELSE RootBetween(n, lo, (lo + hi) \div 2)

\* np.cos(np.arcsin(s)) for |s| <= 1: the root of 1 - s^2 cut to the grid
CosArcsin(s) == RootBetween(Scale * Scale - s * s, 0, Scale + 1)

\* a quotient of two grid values as a float: x/0 is inf or NaN under numpy
FxQuot(a, b) ==
    IF b = 0 THEN <<Sgn(a), 0>> ELSE Unfx(FxDiv(a, b))

\* lines 151-158, with cos(theta1)/vp1, cos(theta2)/vp2, cos(phi1)/vs1 and
\* cos(phi2)/vs2 as c1, c2, k1, k2
ZoeppritzRatios(vp1, vs1, p, a, b, c, d, c1, c2, k1, k2) ==
    LET H == a - FxMul(FxMul(d, c2), k2)
        E == FxMul(b, c1) + FxMul(c, c2)
        F == FxMul(b, k1) + FxMul(c, k2)
        G == a - FxMul(FxMul(d, c1), k2)
        pp == FxMul(p, p)
        D == FxMul(E, F) + FxMul(FxMul(G, H), pp)
    IN  [p |-> p,
         Rpp |-> FxQuot(FxMul(FxMul(b, c1) - FxMul(c, c2), F)
                        - FxMul(FxMul(a + FxMul(FxMul(d, c1), k2), H), pp), D),
         Rps |-> FxQuot(FxMul(FxMul(FxMul(-2 * c1,
                                          FxMul(a, b) + FxMul(FxMul(FxMul(c, d), c2), k2)),
                                    p), vp1),
                        FxMul(vs1, D))]

\* lines 147-150, with the sines of theta2, phi1 and phi2 as s2, t1, t2
ZoeppritzDensities(vp1, vs1, rho1, vp2, vs2, rho2, cos1, p, s2, t1, t2) ==
    IF Abs(s2) > Scale \/ Abs(t1) > Scale \/ Abs(t2) > Scale
    THEN [p |-> p, Rpp |-> NaN, Rps |-> NaN]
    ELSE ZoeppritzRatios(vp1, vs1, p,
            FxMul(rho2, Scale - 2 * FxMul(t2, t2)) - FxMul(rho1, Scale - 2 * FxMul(t1, t1)),
            FxMul(rho2, Scale - 2 * FxMul(t2, t2)) + 2 * FxMul(rho1, FxMul(t1, t1)),
            FxMul(rho1, Scale - 2 * FxMul(t1, t1)) + 2 * FxMul(rho2, FxMul(t2, t2)),
            2 * (FxMul(rho2, FxMul(vs2, vs2)) - FxMul(rho1, FxMul(vs1, vs1))),
            FxDiv(cos1, vp1), FxDiv(CosArcsin(s2), vp2),
            FxDiv(CosArcsin(t1), vs1), FxDiv(CosArcsin(t2), vs2))

\* lines 143-145: the arguments of the three arcsines
ZoeppritzAngles(vp1, vs1, rho1, vp2, vs2, rho2, cos1, p) ==
    ZoeppritzDensities(vp1, vs1, rho1, vp2, vs2, rho2, cos1, p,
                       FxMul(p, vp2), FxMul(p, vs1), FxMul(p, vs2))

\* Lines 140-141.  theta1 is the angle in radians and the cosines of lines
\* 152-158 take it; the sine of line 141 takes theta, the parameter in degrees
\* (angle here).
zoeppritz(vp1, vs1, rho1, vp2, vs2, rho2, angle) ==
    ZoeppritzAngles(vp1, vs1, rho1, vp2, vs2, rho2,
                    FxCos(deg2rad(angle)), FxDiv(FxSin(angle), vp1))

\* what a caller passes: velocities in km/s, densities in g/cm3, angles in
\* degrees
Velocities_P == {3 * Scale, 4 * Scale}

Velocities_S == {Scale, 2 * Scale}

Densities == {2 * Scale, 3 * Scale}

Angles == {0, 30 * Scale, 60 * Scale}

-----------------------------------------------------------------------------
(* Digby: GM.py lines 283-311 *)

\* np.sqrt of a grid value, cut to the grid
FxRoot(v) == RootBetween(v * Scale, 0, 2 * Scale)

\* x^3 + p*x on the grid
Cubic(p, r) == FxMul(FxMul(r, r), r) + FxMul(p, r)

\* the real root of x^3 + p*x - c = 0 for p >= 0 and c >= 0, cut to the grid:
\* the left-hand side increases with x, so there is exactly one
RECURSIVE RealRoot(_, _, _, _)
RealRoot(p, c, lo, hi) ==
    IF hi - lo <= 1 THEN lo
    ELSE IF Cubic(p, (lo + hi) \div 2) <= c
         THEN RealRoot(p, c, (lo + hi) \div 2, hi)
         ELSE RealRoot(p, c, lo, (lo + hi) \div 2)

\* np.roots([1, 0, p, -c]) given the real root r: x^3 + p*x - c is
\* (x - r)*(x^2 + r*x + r^2 + p), whose other two roots are -r/2 +- i*w with
\* w^2 = 3*r^2/4 + p.  A root is held as its real and imaginary part.
RootsFrom(p, r) ==
    <<[re |-> r, im |-> 0],
      [re |-> -(r \div 2) - (r % 2), im |-> FxRoot(FxDiv(3 * FxMul(r, r), 4 * Scale) + p)],
      [re |-> -(r \div 2) - (r % 2), im |-> -FxRoot(FxDiv(3 * FxMul(r, r), 4 * Scale) + p)]>>

np_roots(p, c) == RootsFrom(p, RealRoot(p, c, 0, 2 * Scale))

\* variant: the real parts of all the roots
NonNegativeReal_All(roots) == [i \in 1..Len(roots) |-> roots[i].re]

\* line 305: roots.real[roots.real>=0]
NonNegativeReal(roots) ==
    LET RECURSIVE Keep(_)
        Keep(i) == IF i > Len(roots) THEN <<>>
                   ELSE IF roots[i].re >= 0 THEN <<roots[i].re>> \o Keep(i + 1)
                   ELSE Keep(i + 1)
    IN  Keep(1)

\* line 302
DigbyNu(K0, G0) == FxDiv(3 * K0 - 2 * G0, 6 * K0 + 2 * G0)

\* line 304: 3*np.pi*(1-nu)*sigma/(2*Cn*(1-phi)*G0), the cubic being
\* x^3 + 3/2*a_R**2*x minus this
DigbyLoad(G0, phi, Cn, sigma, nu) ==
    FxDiv(FxMul(FxMul(3 * FxPi, Scale - nu), sigma),
          FxMul(FxMul(2 * Cn, Scale - phi), G0))

\* lines 306-310 for one selected root
DigbyModuli(G0, phi, Cn, a_R, nu, b_R) ==
    <<FxDiv(FxDiv(FxMul(FxMul(Cn, Scale - phi), FxDiv(FxMul(4 * G0, b_R), Scale - nu)),
                  12 * Scale),
            FxPi),
      FxDiv(FxDiv(FxMul(FxMul(Cn, Scale - phi),
                        FxDiv(FxMul(4 * G0, b_R), Scale - nu)
                        + FxMul(Fx(<<3, 2>>), FxDiv(FxMul(8 * G0, a_R), 2 * Scale - nu))),
                  20 * Scale),
            FxPi)>>

\* lines 306-311: Keff and Geff, arrays with an entry for every selected root
DigbyFrom(G0, phi, Cn, a_R, nu, root) ==
    <<[i \in 1..Len(root) |->
         DigbyModuli(G0, phi, Cn, a_R, nu,
                     FxRoot(FxMul(root[i], root[i]) + FxMul(a_R, a_R)))[1]],
      [i \in 1..Len(root) |->
         DigbyModuli(G0, phi, Cn, a_R, nu,
                     FxRoot(FxMul(root[i], root[i]) + FxMul(a_R, a_R)))[2]]>>

\* lines 301-305, on the grid, then the rest
DigbyAt(G0, phi, Cn, sigma, a_R, nu) ==
    DigbyFrom(G0, phi, Cn, a_R, nu,
              NonNegativeReal(np_roots(FxMul(Fx(<<3, 2>>), FxMul(a_R, a_R)),
                                       DigbyLoad(G0, phi, Cn, sigma, nu))))

Digby(K0, G0, phi, Cn, sigma, a_R) ==
    DigbyAt(Fx(G0), Fx(phi), Fx(Cn), FxDiv(Fx(sigma), 1000 * Scale), Fx(a_R),
            DigbyNu(Fx(K0), Fx(G0)))

\* porosities, coordination numbers, effective stresses in MPa and ratios of
\* the bonded radius to the grain radius
DigbyPorosities == {Rat(9, 25), Rat(2, 5)}

DigbyCoordination == {Num(6), Num(9)}

DigbyStresses == {Num(0), Num(10), Num(20)}

BondRatios == {Zero, Rat(1, 20), Rat(1, 10)}

-----------------------------------------------------------------------------
(* IEEE 754 double arithmetic: what +, -, *, / and **-1 return, bit for bit *)

\* Where a claim is about the very value a call returns, the rounding of each
\* operation counts.  A natural number is held as its digits in base 2^27,
\* lowest first and without leading zeros (0 is the empty sequence); a finite
\* double is sign * man * 2^exp with 2^52 <= man < 2^53, or zero.  Every
\* operation computes the exact result and rounds it to the nearest double,
\* ties to the even mantissa.  Infinities, NaN, subnormals and the sign of zero
\* are left out: the inputs below stay clear of them.

LimbBits == 27

Base == 2 ^ LimbBits

MantissaBits == 53

RECURSIVE Trim(_)
Trim(a) ==
    IF Len(a) = 0 THEN <<>>
    ELSE IF a[Len(a)] = 0 THEN Trim(SubSeq(a, 1, Len(a) - 1))
    ELSE SubSeq(a, 1, Len(a))

Limb(a, i) == IF i >= 1 /\ i <= Len(a) THEN a[i] ELSE 0

RECURSIVE AddFrom(_, _, _, _)
AddFrom(a, b, i, carry) ==
    IF i > Len(a) /\ i > Len(b)
    THEN (IF carry = 0 THEN <<>> ELSE <<carry>>)
    ELSE <<(Limb(a, i) + Limb(b, i) + carry) % Base>>
         \o AddFrom(a, b, i + 1, (Limb(a, i) + Limb(b, i) + carry) \div Base)

BigAdd(a, b) == AddFrom(a, b, 1, 0)

\* a - b for a >= b
RECURSIVE SubFrom(_, _, _, _)
SubFrom(a, b, i, borrow) ==
    IF i > Len(a) THEN <<>>
    ELSE <<(Limb(a, i) - Limb(b, i) - borrow + Base) % Base>>
         \o SubFrom(a, b, i + 1, IF Limb(a, i) - Limb(b, i) - borrow < 0 THEN 1 ELSE 0)

BigSub(a, b) == Trim(SubFrom(a, b, 1, 0))

\* a < b from digit i downwards, the digits above being equal
RECURSIVE LessFrom(_, _, _)
LessFrom(a, b, i) ==
    IF i = 0 THEN FALSE
    ELSE IF a[i] # b[i] THEN a[i] < b[i]
    ELSE LessFrom(a, b, i - 1)

BigLess(a, b) ==
    IF Len(a) # Len(b) THEN Len(a) < Len(b) ELSE LessFrom(a, b, Len(a))

IsOdd(a) == a # <<>> /\ a[1] % 2 = 1

\* a * 2^k and a \div 2^k for k < LimbBits
ShlBits(a, k) ==
    Trim([i \in 1..(Len(a) + 1) |->
            (Limb(a, i) % 2 ^ (LimbBits - k)) * 2 ^ k
            + Limb(a, i - 1) \div 2 ^ (LimbBits - k)])

ShrBits(a, k) ==
    Trim([i \in 1..Len(a) |->
            a[i] \div 2 ^ k + (Limb(a, i + 1) % 2 ^ k) * 2 ^ (LimbBits - k)])

\* a * 2^n and a \div 2^n
Shl(a, n) ==
    IF a = <<>> THEN <<>>
    ELSE [i \in 1..(n \div LimbBits) |-> 0] \o ShlBits(a, n % LimbBits)

Shr(a, n) ==
    IF n \div LimbBits >= Len(a) THEN <<>>
    ELSE ShrBits(SubSeq(a, n \div LimbBits + 1, Len(a)), n % LimbBits)

\* the number of binary digits of a digit, and of a number
Width(d) == CHOOSE k \in 0..LimbBits : d < 2 ^ k /\ (k = 0 \/ d >= 2 ^ (k - 1))

BitLen(a) == IF a = <<>> THEN 0 ELSE LimbBits * (Len(a) - 1) + Width(a[Len(a)])

\* a times the binary digits lo..hi of b, the sum taken by halves
RECURSIVE MulRange(_, _, _, _)
MulRange(a, b, lo, hi) ==
    IF lo = hi THEN (IF IsOdd(Shr(b, lo)) THEN Shl(a, lo) ELSE <<>>)
    ELSE BigAdd(MulRange(a, b, lo, (lo + hi) \div 2),
                MulRange(a, b, (lo + hi) \div 2 + 1, hi))

BigMul(a, b) == IF b = <<>> THEN <<>> ELSE MulRange(a, b, 0, BitLen(b) - 1)

\* n binary digits of the quotient r/d, for r < 2*d: the quotient so far is q
RECURSIVE DivBits(_, _, _, _)
DivBits(r, d, n, q) ==
    IF n = 0 THEN [quot |-> q, rem |-> r]
    ELSE IF BigLess(r, d)
         THEN DivBits(Shl(r, 1), d, n - 1, Shl(q, 1))
         ELSE DivBits(Shl(BigSub(r, d), 1), d, n - 1, BigAdd(Shl(q, 1), <<1>>))

\* eight more digits of a quotient
DivByte(st, d) == DivBits(st.rem, d, 8, st.quot)

\* 8*g binary digits of the quotient r/d, eight at a time
RECURSIVE DivGroups(_, _, _)
DivGroups(r, d, g) ==
    IF g = 0 THEN [quot |-> <<>>, rem |-> r]
    ELSE DivByte(DivGroups(r, d, g - 1), d)

F64Zero == [sign |-> 1, man |-> <<>>, exp |-> 0]

\* the mantissa q, or its successor, at exponent e
RoundTo(sign, q, e, up) ==
    IF ~up THEN [sign |-> sign, man |-> q, exp |-> e]
    ELSE IF BitLen(BigAdd(q, <<1>>)) > MantissaBits
         THEN [sign |-> sign, man |-> Shr(BigAdd(q, <<1>>), 1), exp |-> e + 1]
         ELSE [sign |-> sign, man |-> BigAdd(q, <<1>>), exp |-> e]

\* sign * n * 2^e with its lowest k digits rounded away
RoundOff(sign, n, e, k) ==
    RoundTo(sign, Shr(n, k), e + k,
            /\ IsOdd(Shr(n, k - 1))
            /\ \/ IsOdd(Shr(n, k))
               \/ Shl(Shr(n, k - 1), k - 1) # n)

\* the double nearest to sign * n * 2^e
Round(sign, n, e) ==
    IF n = <<>> THEN F64Zero
    ELSE IF BitLen(n) <= MantissaBits
         THEN [sign |-> sign, man |-> Shl(n, MantissaBits - BitLen(n)),
               exp |-> e - (MantissaBits - BitLen(n))]
         ELSE RoundOff(sign, n, e, BitLen(n) - MantissaBits)

\* the double of an integer below 2^27 in magnitude
F64(i) == Round(IF i < 0 THEN -1 ELSE 1, Trim(<<Abs(i)>>), 0)

F64Neg(a) == IF a.man = <<>> THEN a ELSE [a EXCEPT !.sign = -a.sign]

\* na * 2^e + nb * 2^e, each with its sign
AddAligned(sa, na, sb, nb, e) ==
    IF sa = sb THEN Round(sa, BigAdd(na, nb), e)
    ELSE IF BigLess(na, nb) THEN Round(sb, BigSub(nb, na), e)
    ELSE Round(sa, BigSub(na, nb), e)

F64Add(a, b) ==
    IF a.man = <<>> THEN b
    ELSE IF b.man = <<>> THEN a
    ELSE IF a.exp >= b.exp
         THEN AddAligned(a.sign, Shl(a.man, a.exp - b.exp), b.sign, b.man, b.exp)
         ELSE AddAligned(a.sign, a.man, b.sign, Shl(b.man, b.exp - a.exp), a.exp)

F64Sub(a, b) == F64Add(a, F64Neg(b))

F64Mul(a, b) ==
    IF a.man = <<>> \/ b.man = <<>> THEN F64Zero
    ELSE Round(a.sign * b.sign, BigMul(a.man, b.man), a.exp + b.exp)

\* the quotient to 56 digits, a further digit telling whether it is inexact
RoundQuotient(sign, d, e) ==
    Round(sign, BigAdd(Shl(d.quot, 1), IF d.rem = <<>> THEN <<>> ELSE <<1>>), e)

\* a / b for b # 0
F64Div(a, b) ==
    IF b.man # <<>> /\ a.man = <<>> THEN F64Zero
    ELSE RoundQuotient(a.sign * b.sign, DivGroups(a.man, b.man, 7),
                       a.exp - b.exp - 56)

\* x**-1: pow(x, -1.0) of the C library, which returns the rounded reciprocal
F64Inv(a) == F64Div(F64(1), a)

\* the double with mantissa hi * 2^27 + lo and exponent e
F64Bits(hi, lo, e) == [sign |-> 1, man |-> <<lo, hi>>, exp |-> e]

-----------------------------------------------------------------------------
(* VRH in doubles, for one phase: EM.py lines 29-34 *)

\* np.dot of two one-element arrays: the one product
dot64(a, b) == F64Mul(a[1], b[1])

\* 1/M, elementwise
Reciprocal64(M) == [i \in 1..Len(M) |-> F64Div(F64(1), M[i])]

\* lines 29-34, operation by operation
VRH64(volumes, M) ==
    <<dot64(volumes, M),
      F64Inv(dot64(volumes, Reciprocal64(M))),
      F64Mul(F64Div(F64(1), F64(2)),
             F64Add(F64Inv(dot64(volumes, Reciprocal64(M))), dot64(volumes, M)))>>

\* the largest modulus of a single phase
MaxSingle == 50

\* the moduli and the volume fractions of a single phase
Singles == {F64(i) : i \in 1..MaxSingle}

SingleVolumes == {F64Div(F64(1), F64(4)), F64Div(F64(1), F64(2)), F64(1)}

-----------------------------------------------------------------------------
(* hertzmindlin and softsand in doubles: GM.py lines 59-82 and 85-107 *)

\* a decimal literal p/q: the double nearest to it
Dec(p, q) == F64Div(F64(p), F64(q))

\* np.pi
F64Pi == F64Bits(52707178, 71576856, -51)

\* x**2: pow(x, 2.0) of the C library, the rounded square
F64Sq(a) == F64Mul(a, a)

\* x**(1/3): pow(x, 0.3333333333333333) of the C library, tabulated at the
\* arguments the inputs of the model lead to
F64Pow13(a) ==
    CASE a = F64Bits(55290127, 39511395, -52) -> F64Bits(39632286, 13093645, -52)
      [] a = F64Bits(56573469, 36777529, -52) -> F64Bits(39936579, 60973719, -52)
      [] a = F64Bits(62907878, 22287306, -52) -> F64Bits(41374707, 112344380, -52)
      [] a = F64Bits(64368036, 20369821, -52) -> F64Bits(41692379, 48481865, -52)
      [] a = F64Bits(55290127, 39511395, -51) -> F64Bits(49933551, 68419608, -52)
      [] a = F64Bits(56573469, 36777529, -51) -> F64Bits(50316937, 15469745, -52)
      [] a = F64Bits(62201393, 27673104, -51) -> F64Bits(51932986, 48519228, -52)
      [] a = F64Bits(62907878, 22287306, -51) -> F64Bits(52128865, 45248225, -52)
      [] a = F64Bits(63645152, 125260802, -51) -> F64Bits(52331723, 61670987, -52)
      [] a = F64Bits(64368036, 20369821, -51) -> F64Bits(52529106, 50653929, -52)
      [] a = F64Bits(35385681, 62868257, -50) -> F64Bits(54216204, 100784494, -52)
      [] a = F64Bits(36207020, 45012456, -50) -> F64Bits(54632472, 27850500, -52)
      [] a = F64Bits(62201393, 27673104, -50) -> F64Bits(65431462, 94053434, -52)
      [] a = F64Bits(63645152, 125260802, -50) -> F64Bits(65933839, 129370062, -52)
      [] a = F64Bits(35385681, 62868257, -49) -> F64Bits(34154068, 108117287, -51)
      [] a = F64Bits(36207020, 45012456, -49) -> F64Bits(34416300, 116905580, -51)
      [] a = F64Bits(46651044, 121418123, -47) -> F64Bits(59448429, 19640467, -51)
      [] a = F64Bits(47733864, 93945600, -47) -> F64Bits(59904869, 24351713, -51)
      [] a = F64Bits(53078522, 27193521, -47) -> F64Bits(62062061, 101407704, -51)
      [] a = F64Bits(54310530, 67518685, -47) -> F64Bits(62538569, 5613933, -51)
      [] a = F64Bits(46651044, 121418123, -46) -> F64Bits(37450163, 84869138, -50)
      [] a = F64Bits(47733864, 93945600, -46) -> F64Bits(37737702, 112265604, -50)
      [] a = F64Bits(52482425, 69486524, -46) -> F64Bits(38949739, 103498284, -50)
      [] a = F64Bits(53078522, 27193521, -46) -> F64Bits(39096649, 381736, -50)
      [] a = F64Bits(53700597, 105688801, -46) -> F64Bits(39248792, 79807672, -50)
      [] a = F64Bits(54310530, 67518685, -46) -> F64Bits(39396829, 105099310, -50)
      [] a = F64Bits(59713337, 64147144, -46) -> F64Bits(40662153, 75588370, -50)
      [] a = F64Bits(61099346, 109512953, -46) -> F64Bits(40974354, 20887875, -50)
      [] a = F64Bits(52482425, 69486524, -45) -> F64Bits(49073597, 3431211, -50)
      [] a = F64Bits(53700597, 105688801, -45) -> F64Bits(49450379, 130581978, -50)
      [] a = F64Bits(59713337, 64147144, -45) -> F64Bits(51231103, 27958201, -50)
      [] a = F64Bits(61099346, 109512953, -45) -> F64Bits(51624451, 41140643, -50)

\* line 80 without its power: sigma*(Cn**2*(1-phic)**2*G0**2) over
\* 18*np.pi**2*(1-nu)**2, and line 81 with 3*Cn**2 and 2*np.pi**2
ContactStiffness(G0, phic, Cn, sigma, nu, three, two) ==
    F64Div(F64Mul(sigma,
                  F64Mul(F64Mul(F64Mul(three, F64Sq(Cn)), F64Sq(F64Sub(F64(1), phic))),
                         F64Sq(G0))),
           F64Mul(F64Mul(two, F64Sq(F64Pi)), F64Sq(F64Sub(F64(1), nu))))

\* line 81, the factor in front: (2+3*f-nu*(1+3*f))/(5*(2-nu))
ShearFactor(f, nu) ==
    F64Div(F64Sub(F64Add(F64(2), F64Mul(F64(3), f)),
                  F64Mul(nu, F64Add(F64(1), F64Mul(F64(3), f)))),
           F64Mul(F64(5), F64Sub(F64(2), nu)))

\* lines 80-82, with sigma in GPa and Poisson's ratio nu
HertzMindlinAt(G0, phic, Cn, sigma, f, nu) ==
    <<F64Pow13(ContactStiffness(G0, phic, Cn, sigma, nu, F64(1), F64(18))),
      F64Mul(ShearFactor(f, nu),
             F64Pow13(ContactStiffness(G0, phic, Cn, sigma, nu, F64(3), F64(2))))>>

\* lines 78-79, then the rest
hertzmindlin(K0, G0, phic, Cn, sigma, f) ==
    HertzMindlinAt(G0, phic, Cn, F64Div(sigma, F64(1000)), f,
                   F64Div(F64Sub(F64Mul(F64(3), K0), F64Mul(F64(2), G0)),
                          F64Add(F64Mul(F64(6), K0), F64Mul(F64(2), G0))))

\* -z + ((phi/phic)/(M_HM + z) + (1 - phi/phic)/(M0 + z))**-1, the form of lines
\* 104 and 106, with minus_z as the source writes it
LowerBound(M0, M_HM, t, z, minus_z) ==
    F64Add(minus_z,
           F64Inv(F64Add(F64Div(t, F64Add(M_HM, z)),
                         F64Div(F64Sub(F64(1), t), F64Add(M0, z)))))

\* line 105
SoftsandAux(K_HM, G_HM) ==
    F64Mul(F64Div(G_HM, F64(6)),
           F64Div(F64Add(F64Mul(F64(9), K_HM), F64Mul(F64(8), G_HM)),
                  F64Add(K_HM, F64Mul(F64(2), G_HM))))

\* lines 104-107, with phi/phic as t and aux of line 105
SoftsandAt(K0, G0, t, K_HM, G_HM, aux) ==
    <<LowerBound(K0, K_HM, t, F64Mul(Dec(4, 3), G_HM), F64Mul(Dec(-4, 3), G_HM)),
      LowerBound(G0, G_HM, t, aux, F64Neg(aux))>>

\* line 103 has the two moduli of hertzmindlin
SoftsandFrom(K0, G0, t, HM) ==
    SoftsandAt(K0, G0, t, HM[1], HM[2], SoftsandAux(HM[1], HM[2]))

softsand(K0, G0, phi, phic, Cn, sigma, f) ==
    SoftsandFrom(K0, G0, F64Div(phi, phic), hertzmindlin(K0, G0, phic, Cn, sigma, f))

\* quartz-like grains (K0, G0 in GPa), critical porosities, coordination
\* numbers, effective stresses in MPa, shear factors, porosities
Grains == {<<F64(37), F64(44)>>, <<Dec(366, 10), F64(45)>>}

CriticalPorosities == {Dec(36, 100), Dec(4, 10)}

CoordinationNumbers == {F64(6), F64(9)}

Stresses == {F64(10), F64(20)}

ShearFactors == {F64(0), Dec(1, 2), F64(1)}

SandPorosities == {Dec(2, 10), Dec(4, 10)}

-----------------------------------------------------------------------------
(* HS in doubles: EM.py lines 92-102 *)

\* K + 4*G/3
StiffTerm64(K, G) == F64Add(K, F64Div(F64Mul(F64(4), G), F64(3)))

\* lines 93 and 98: Ka + num/((Kb-Ka)**-1 + w*(Ka+4*Ga/3)**-1)
HSBulk64(num, w, Ka, Kb, Ga) ==
    F64Add(Ka, F64Div(num, F64Add(F64Inv(F64Sub(Kb, Ka)),
                                  F64Mul(w, F64Inv(StiffTerm64(Ka, Ga))))))

\* lines 95 and 100: Temp
HSTemp64(Ka, Ga) ==
    F64Div(F64Add(Ka, F64Mul(F64(2), Ga)),
           F64Mul(F64Mul(F64(5), Ga), StiffTerm64(Ka, Ga)))

\* lines 96 and 101: Ga + num/((Gb-Ga)**-1 + 2*w*Temp)
HSShear64(num, w, Ka, Ga, Gb) ==
    F64Add(Ga, F64Div(num, F64Add(F64Inv(F64Sub(Gb, Ga)),
                                  F64Mul(F64Mul(F64(2), w), HSTemp64(Ka, Ga)))))

\* one branch of HS, the phase a carrying the weight w and num = 1 - w
HSBranch64(num, w, Ka, Kb, Ga, Gb) ==
    <<HSBulk64(num, w, Ka, Kb, Ga), HSShear64(num, w, Ka, Ga, Gb)>>

\* variant: the bound's name compared without regard to case
HS64_AnyCase(f, K1, K2, G1, G2, bound) ==
    IF bound \in {"upper", "Upper"}
    THEN HSBranch64(F64Sub(F64(1), f), f, K1, K2, G1, G2)
    ELSE HSBranch64(f, F64Sub(F64(1), f), K2, K1, G2, G1)

HS64(f, K1, K2, G1, G2, bound) ==
    IF bound = "upper"
    THEN HSBranch64(F64Sub(F64(1), f), f, K1, K2, G1, G2)
    ELSE HSBranch64(f, F64Sub(F64(1), f), K2, K1, G2, G1)

\* pairs of distinct bulk moduli and of distinct shear moduli (GPa), end points
\* and the middle of the volume fraction
BulkPairs ==
    {<<F64(37), F64(36)>>, <<F64(36), F64(37)>>, <<F64(50), F64(1)>>,
     <<F64(1), F64(50)>>, <<Dec(366, 10), Dec(22, 10)>>, <<F64(3), F64(2)>>}

ShearPairs == {<<F64(45), F64(44)>>, <<F64(44), F64(45)>>, <<F64(3), F64(1)>>}

StiffFractions == {F64(0), Dec(1, 2), F64(1)}

-----------------------------------------------------------------------------
(* contactcement and MUHS in doubles: GM.py lines 18-57 and 256-281 *)

\* a**b for the arguments that occur, as the C library's pow returns it
F64Pow(a, b) ==
    CASE a = F64Bits(42419430, 11267666, -62) /\ b = F64Bits(33554432, 0, -54)
           -> F64Bits(50317450, 2465834, -55)
      [] a = F64Bits(63629145, 16901500, -62) /\ b = F64Bits(33554432, 0, -54)
           -> F64Bits(55685412, 24260765, -55)
      [] a = F64Bits(42419430, 11267659, -61) /\ b = F64Bits(33554432, 0, -54)
           -> F64Bits(59837869, 76590223, -55)
      [] a = F64Bits(63629145, 16901488, -61) /\ b = F64Bits(33554432, 0, -54)
           -> F64Bits(66221488, 49286782, -55)
      [] a = F64Bits(63629145, 16901492, -61) /\ b = F64Bits(33554432, 0, -54)
           -> F64Bits(66221488, 49286783, -55)
      [] a = F64Bits(47721858, 113339415, -60) /\ b = F64Bits(33554432, 0, -54)
           -> F64Bits(36643061, 125603780, -54)
      [] a = F64Bits(47721858, 113339421, -58) /\ b = F64Bits(33554432, 0, -53)
           -> F64Bits(40015995, 19570323, -55)
      [] a = F64Bits(47721858, 113339412, -57) /\ b = F64Bits(33554432, 0, -53)
           -> F64Bits(56591163, 6316392, -55)
      [] a = F64Bits(53166188, 13474000, -57) /\ b = F64Neg(F64Bits(60158798, 9696034, -52))
           -> F64Bits(57373544, 113237374, -45)
      [] a = F64Bits(53166188, 13474000, -57) /\ b = F64Neg(F64Bits(44642810, 127819296, -52))
           -> F64Bits(57174343, 133671003, -47)
      [] a = F64Bits(53166188, 13474000, -57) /\ b = F64Neg(F64Bits(58586359, 125306309, -53))
           -> F64Bits(57831164, 30176365, -49)
      [] a = F64Bits(54374510, 74788287, -57) /\ b = F64Neg(F64Bits(60020094, 18868284, -52))
           -> F64Bits(54432504, 110081924, -45)
      [] a = F64Bits(54374510, 74788287, -57) /\ b = F64Neg(F64Bits(44578793, 94780096, -52))
           -> F64Bits(55175271, 52596917, -47)
      [] a = F64Bits(54374510, 74788287, -57) /\ b = F64Neg(F64Bits(58547405, 122497821, -53))
           -> F64Bits(56609531, 88377941, -49)
      [] a = F64Bits(35791394, 17895697, -56) /\ b = F64Bits(33554432, 0, -53)
           -> F64Bits(34654868, 47511258, -54)
      [] a = F64Bits(53913193, 87274975, -55) /\ b = F64Neg(F64Bits(66652523, 97281009, -52))
           -> F64Bits(50867264, 651283, -48)
      [] a = F64Bits(53913193, 87274975, -55) /\ b = F64Neg(F64Bits(45788377, 121762323, -52))
           -> F64Bits(37495895, 14759931, -49)
      [] a = F64Bits(53913193, 87274975, -55) /\ b = F64Neg(F64Bits(59732257, 89807766, -53))
           -> F64Bits(35011003, 94763724, -50)
      [] a = F64Bits(54535295, 53722214, -55) /\ b = F64Neg(F64Bits(66652523, 97281009, -52))
           -> F64Bits(49721121, 133513693, -48)
      [] a = F64Bits(54535295, 53722214, -55) /\ b = F64Neg(F64Bits(45788377, 121762323, -52))
           -> F64Bits(36913434, 65577294, -49)
      [] a = F64Bits(54535295, 53722214, -55) /\ b = F64Neg(F64Bits(59732257, 89807766, -53))
           -> F64Bits(34655298, 13780495, -50)
      [] a = F64Bits(42722829, 97110147, -54) /\ b = F64Neg(F64Bits(60158798, 9696034, -52))
           -> F64Bits(65315451, 89899741, -50)
      [] a = F64Bits(42722829, 97110147, -54) /\ b = F64Neg(F64Bits(44642810, 127819296, -52))
           -> F64Bits(38470483, 55689580, -50)
      [] a = F64Bits(42722829, 97110147, -54) /\ b = F64Neg(F64Bits(58586359, 125306309, -53))
           -> F64Bits(45575780, 107643838, -51)
      [] a = F64Bits(43693803, 16956318, -54) /\ b = F64Neg(F64Bits(60020094, 18868284, -52))
           -> F64Bits(62445776, 111141590, -50)
      [] a = F64Bits(43693803, 16956318, -54) /\ b = F64Neg(F64Bits(44578793, 94780096, -52))
           -> F64Bits(37257413, 77197407, -50)
      [] a = F64Bits(43693803, 16956318, -54) /\ b = F64Neg(F64Bits(58547405, 122497821, -53))
           -> F64Bits(44661244, 92201410, -51)
      [] a = F64Bits(42923196, 64838310, -53) /\ b = F64Neg(F64Bits(66652523, 97281009, -52))
           -> F64Bits(40762044, 124113881, -51)
      [] a = F64Bits(42923196, 64838310, -53) /\ b = F64Neg(F64Bits(45788377, 121762323, -52))
           -> F64Bits(61745049, 115890527, -52)
      [] a = F64Bits(42923196, 64838310, -53) /\ b = F64Neg(F64Bits(59732257, 89807766, -53))
           -> F64Bits(49946330, 90883086, -52)
      [] a = F64Bits(43418485, 24703376, -53) /\ b = F64Neg(F64Bits(66652523, 97281009, -52))
           -> F64Bits(39843593, 117218728, -51)
      [] a = F64Bits(43418485, 24703376, -53) /\ b = F64Neg(F64Bits(45788377, 121762323, -52))
           -> F64Bits(60785903, 36068672, -52)
      [] a = F64Bits(43418485, 24703376, -53) /\ b = F64Neg(F64Bits(59732257, 89807766, -53))
           -> F64Bits(49438884, 106588862, -52)

\* lines 39 and 40: Poisson's ratio (3*K-2*G)/(6*K+2*G)
Poisson64(K, G) ==
    F64Div(F64Sub(F64Mul(F64(3), K), F64Mul(F64(2), G)),
           F64Add(F64Mul(F64(6), K), F64Mul(F64(2), G)))

\* lines 41-44: the contact radius ratio, by the scheme of deposition
CementAlpha(phi, phic, Cn, scheme) ==
    IF scheme = 1
    THEN F64Mul(F64(2),
                F64Pow(F64Div(F64Sub(phic, phi),
                              F64Mul(F64Mul(F64(3), Cn), F64Sub(F64(1), phic))),
                       Dec(1, 4)))
    ELSE F64Pow(F64Div(F64Mul(F64(2), F64Sub(phic, phi)),
                       F64Mul(F64(3), F64Sub(F64(1), phic))),
                Dec(1, 2))

\* c2*v**2 + c1*v + c0, as lines 49 and 54-57 write it
Quadratic64(c2, c1, c0, v) ==
    F64Add(F64Add(F64Mul(c2, F64Sq(v)), F64Mul(c1, v)), c0)

\* line 45
LambdaN(G0, Gc, nu_0, nu_c) ==
    F64Div(F64Mul(F64Mul(F64Mul(F64(2), Gc), F64Sub(F64(1), nu_0)),
                  F64Sub(F64(1), nu_c)),
           F64Mul(F64Mul(F64Pi, G0), F64Sub(F64(1), F64Mul(F64(2), nu_c))))

\* lines 46-49: Sn
NormalStiffness(L, alpha) ==
    Quadratic64(F64Mul(Dec(-24153, 1000000), F64Pow(L, Dec(-13646, 10000))),
                F64Mul(Dec(20405, 100000), F64Pow(L, Dec(-89008, 100000))),
                F64Mul(Dec(24649, 100000000), F64Pow(L, Dec(-19864, 10000))),
                alpha)

\* line 50
LambdaT(G0, Gc) == F64Div(Gc, F64Mul(F64Pi, G0))

\* lines 51-54: St
TangentialStiffness(L, nu_0, alpha) ==
    Quadratic64(
        F64Mul(F64Mul(Dec(-1, 100),
                      Quadratic64(Dec(226, 100), Dec(207, 100), Dec(23, 10), nu_0)),
               F64Pow(L, Quadratic64(Dec(79, 1000), Dec(1754, 10000),
                                     Dec(-1342, 1000), nu_0))),
        F64Mul(Quadratic64(Dec(573, 10000), Dec(937, 10000), Dec(202, 1000), nu_0),
               F64Pow(L, Quadratic64(Dec(274, 10000), Dec(529, 10000),
                                     Dec(-8765, 10000), nu_0))),
        F64Mul(F64Mul(Dec(1, 10000),
                      Quadratic64(Dec(9654, 1000), Dec(4945, 1000), Dec(31, 10), nu_0)),
               F64Pow(L, Quadratic64(Dec(1867, 100000), Dec(4011, 10000),
                                     Dec(-18186, 10000), nu_0))),
        alpha)

\* line 55
CementBulk(Kc, Gc, phic, Cn, Sn) ==
    F64Mul(F64Mul(F64Mul(F64Mul(Dec(1, 6), Cn), F64Sub(F64(1), phic)),
                  F64Add(Kc, F64Mul(Dec(4, 3), Gc))),
           Sn)

\* line 56
CementShear(Gc, phic, Cn, K_dry, St) ==
    F64Add(F64Mul(Dec(3, 5), K_dry),
           F64Mul(F64Mul(F64Mul(F64Mul(Dec(3, 20), Cn), F64Sub(F64(1), phic)), Gc),
                  St))

\* lines 55-57
CementFrom(Kc, Gc, phic, Cn, K_dry, St) ==
    <<K_dry, CementShear(Gc, phic, Cn, K_dry, St)>>

\* lines 45-57, with the Poisson's ratio of the grain and alpha
CementAt(G0, Kc, Gc, phic, Cn, nu_0, alpha) ==
    CementFrom(Kc, Gc, phic, Cn,
               CementBulk(Kc, Gc, phic, Cn,
                          NormalStiffness(LambdaN(G0, Gc, nu_0, Poisson64(Kc, Gc)),
                                          alpha)),
               TangentialStiffness(LambdaT(G0, Gc), nu_0, alpha))

contactcement(K0, G0, Kc, Gc, phi, phic, Cn, scheme) ==
    CementAt(G0, Kc, Gc, phic, Cn, Poisson64(K0, G0),
             CementAlpha(phi, phic, Cn, scheme))

\* lines 278-280, with t = phi/phi_b and tmp of line 279
MUHSAt(K0, G0, t, K_b, G_b, tmp) ==
    <<LowerBound(K0, K_b, t, F64Mul(Dec(4, 3), G0), F64Mul(Dec(-4, 3), G0)),
      LowerBound(G0, G_b, t, tmp, F64Neg(tmp))>>

\* line 276 has the two moduli of contactcement
MUHSFrom(K0, G0, t, B) ==
    MUHSAt(K0, G0, t, B[1], B[2], SoftsandAux(K0, G0))

MUHS(K0, G0, Kc, Gc, phi, phi_b, phic, Cn, scheme) ==
    MUHSFrom(K0, G0, F64Div(phi, phi_b),
             contactcement(K0, G0, Kc, Gc, phi_b, phic, Cn, scheme))

\* cements (Kc, Gc in GPa): quartz and clay; cement fractions; schemes of
\* deposition, the documented 1 and 2 and one more
Cements == {<<Dec(366, 10), F64(45)>>, <<F64(21), F64(7)>>}

CementFractions == {Dec(2, 100), Dec(4, 100)}

Schemes == {1, 2, 3}

\* cement fractions (v_cem, v_ci) of the cemented end member: at, above and
\* below the switch to the increasing-cement model
CementSteps ==
    {<<Dec(2, 100), Dec(2, 100)>>, <<Dec(4, 100), Dec(4, 100)>>,
     <<Dec(6, 100), Dec(4, 100)>>}

-----------------------------------------------------------------------------
(* pcm in doubles: GM.py lines 314-380 *)

\* a <= b
F64Leq(a, b) == F64Sub(b, a).sign = 1

\* lines 350-357: the cemented end member
CementedEndMember(K0, G0, phic, v_cem, v_ci, Kc, Gc, Cn, scheme) ==
    IF F64Leq(v_cem, v_ci)
    THEN contactcement(K0, G0, Kc, Gc, F64Sub(phic, v_cem), phic, Cn, scheme)
    ELSE MUHS(K0, G0, Kc, Gc, F64Sub(phic, v_cem), F64Sub(phic, v_ci), phic, Cn,
              scheme)

\* lines 363-372: the first Hashin-Shtrikman mixing of the two end members
PatchyMix(f, mode, cem, unc) ==
    IF mode = "stiff"
    THEN HSBranch64(F64Sub(F64(1), f), f, cem[1], unc[1], cem[2], unc[2])
    ELSE HSBranch64(f, F64Sub(F64(1), f), unc[1], cem[1], unc[2], cem[2])

pcm(f, sigma, K0, G0, phi, phic, v_cem, v_ci, Kc, Gc, Cn, mode, scheme, f_) ==
    SoftsandFrom(K0, G0, F64Div(phi, phic),
                 PatchyMix(f, mode,
                           CementedEndMember(K0, G0, phic, v_cem, v_ci, Kc, Gc, Cn,
                                             scheme),
                           hertzmindlin(K0, G0, phic, Cn, sigma, f_)))

\* selectors: the documented values and one more
BoundNames == {"upper", "lower", "Upper"}

Modes == {"stiff", "soft", "Stiff"}

-----------------------------------------------------------------------------
(* The calls *)

NoCall == [fn |-> "none"]

Init ==
    /\ call = NoCall
    /\ ret = <<>>
    /\ Alpha = <<>>
    /\ pc = "idle"
    /\ x = <<>>
    /\ fvec = <<>>
    /\ trial = <<>>
    /\ ftrial = <<>>
    /\ nfev = 0
    /\ ier = 0
    /\ exc = "none"

CallVRH ==
    /\ pc = "idle" /\ call = NoCall
    /\ \E n \in 1..MaxPhases :
         \E volumes \in [1..n -> Fractions], M \in [1..n -> Moduli] :
            /\ call' = [fn |-> "VRH", volumes |-> volumes, M |-> M]
            /\ ret' = VRH(volumes, M)
    /\ UNCHANGED <<Alpha, pc, x, fvec, trial, ftrial, nfev, ier, exc>>

CallHS ==
    /\ pc = "idle" /\ call = NoCall
    /\ \E f \in Fractions, K1 \in PosModuli, K2 \in PosModuli,
          G1 \in Moduli, G2 \in Moduli,
          bound \in {"upper", "lower"}, np \in Booleans :
            /\ call' = [fn |-> "HS", f |-> f, K1 |-> K1, K2 |-> K2, G1 |-> G1,
                        G2 |-> G2, bound |-> bound, np |-> np]
            /\ ret' = HS(f, K1, K2, G1, G2, bound, np)
    /\ UNCHANGED <<Alpha, pc, x, fvec, trial, ftrial, nfev, ier, exc>>

CallOConnell_Budiansky ==
    /\ pc = "idle" /\ call = NoCall
    /\ \E K0 \in PosModuli, G0 \in Moduli, crd \in CrackDensities, np \in Booleans :
            /\ call' = [fn |-> "OConnell_Budiansky", K0 |-> K0, G0 |-> G0,
                        crd |-> crd, np |-> np]
            /\ ret' = OConnell_Budiansky(K0, G0, crd, np)
    /\ UNCHANGED <<Alpha, pc, x, fvec, trial, ftrial, nfev, ier, exc>>

\* a direct call: the caller owns the array it passes as alpha
CallPQ_vectorize ==
    /\ pc = "idle" /\ call = NoCall
    /\ \E n \in 1..MaxPhases, m \in MatrixPoints :
         \E kinds \in [1..n -> Kinds], alpha \in [1..n -> AspectRatios] :
            LET Ki == [i \in 1..n |-> kinds[i][1]]
                Gi == [i \in 1..n |-> kinds[i][2]]
            IN  \E r \in {PQ_vectorize(m[1], m[2], Ki, Gi, alpha)} :
                /\ call' = [fn |-> "PQ_vectorize", Km |-> m[1], Gm |-> m[2],
                            Ki |-> Ki, Gi |-> Gi, alpha |-> alpha]
                /\ ret' = <<r.P, r.Q>>
                /\ Alpha' = r.alpha
                /\ exc' = r.exc
    /\ UNCHANGED <<pc, x, fvec, trial, ftrial, nfev, ier>>

\* line 375 up to the point where fsolve takes over
CallBerrymann_sc ==
    /\ pc = "idle" /\ call = NoCall
    /\ \E n \in 1..MaxPhases, nG \in 1..MaxPhases, nX \in 1..MaxPhases,
          nA \in 1..MaxPhases :
         \E kinds \in [1..(IF nG > n THEN nG ELSE n) -> Kinds], X \in [1..nX -> Weights],
            alpha \in [1..nA -> AspectRatios] :
            LET K == [i \in 1..n |-> kinds[i][1]]
                G == [i \in 1..nG |-> kinds[i][2]]
            IN  /\ call' = [fn |-> "Berrymann_sc", K |-> K, G |-> G, X |-> X,
                            Alpha |-> alpha, round |-> 1, first |-> <<>>]
                /\ Alpha' = alpha
                /\ x' = InitialGuess(K, G)
    /\ pc' = "fsolve"
    /\ UNCHANGED <<ret, fvec, trial, ftrial, nfev, ier, exc>>

\* The caller calls Berrymann_sc once more with the same four array objects.
\* call.Alpha keeps the values the array had when it was first passed, and
\* call.first what the first call returned.
RecallBerrymann_sc ==
    /\ pc = "idle" /\ call.fn = "Berrymann_sc" /\ call.round = 1 /\ exc = "none"
    /\ call' = [call EXCEPT !.round = 2, !.first = ret]
    /\ x' = InitialGuess(call.K, call.G)
    /\ pc' = "fsolve"
    /\ ret' = <<>>
    /\ fvec' = <<>>
    /\ trial' = <<>>
    /\ ftrial' = <<>>
    /\ nfev' = 0
    /\ ier' = 0
    /\ UNCHANGED <<Alpha, exc>>

\* lines 486-488 up to the point where fsolve takes over
CallOConnell_Budiansky_fl ==
    /\ pc = "idle" /\ call = NoCall
    /\ \E K0 \in PosModuli, G0 \in PosModuli, crd \in CrackDensities :
            /\ call' = [fn |-> "OConnell_Budiansky_fl", K0 |-> K0, G0 |-> G0,
                        Kfl |-> Kfl, crd |-> crd, alpha |-> CrackAspect,
                        nu0 |-> nu0Of(K0, G0, TRUE),
                        w |-> Div(Div(Kfl, CrackAspect), K0)]
            /\ x' = OCInitialGuess
    /\ pc' = "fsolve"
    /\ UNCHANGED <<ret, Alpha, fvec, trial, ftrial, nfev, ier, exc>>

\* hybrd's first evaluation, at the starting point
fsolveStart ==
    /\ pc = "fsolve" /\ nfev = 0
    /\ \E r \in {Func(call, x, Alpha)} :
         IF r.exc # "none"
         THEN /\ Alpha' = r.alpha
              /\ exc' = r.exc
              /\ pc' = "idle"
              /\ UNCHANGED <<fvec, trial, ftrial, ier>>
         ELSE /\ fvec' = r.eqs
              /\ trial' = x
              /\ ftrial' = r.eqs
              /\ Alpha' = r.alpha
              /\ ier' = IF IsZeroVec(r.eqs) THEN 1 ELSE 0
              /\ pc' = IF IsZeroVec(r.eqs) THEN "solved" ELSE "fsolve"
              /\ exc' = exc
    /\ nfev' = 1
    /\ UNCHANGED <<call, ret, x>>

\* variant: an evaluation that hybrd does not count against maxfev
fsolveEval_Uncounted ==
    /\ pc = "fsolve" /\ nfev >= 1 /\ nfev < MaxFev
    /\ \E t \in Trials(call) :
         \E r \in {Func(call, t, Alpha)} :
             /\ r.exc = "none"
             /\ trial' = t
             /\ ftrial' = r.eqs
             /\ Alpha' = r.alpha
    /\ UNCHANGED <<call, ret, x, fvec, nfev, ier, pc, exc>>

\* one more evaluation, at a trial point, which may become the iterate
fsolveEval ==
    /\ pc = "fsolve" /\ nfev >= 1 /\ nfev < MaxFev
    /\ \E t \in Trials(call) :
         \E r \in {Func(call, t, Alpha)}, accept \in Booleans :
             IF r.exc # "none"
             THEN /\ Alpha' = r.alpha
                  /\ exc' = r.exc
                  /\ pc' = "idle"
                  /\ UNCHANGED <<x, fvec, trial, ftrial, ier>>
             ELSE /\ accept => Reduces(r.eqs, fvec)
                  /\ trial' = t
                  /\ ftrial' = r.eqs
                  /\ Alpha' = r.alpha
                  /\ x' = IF accept THEN t ELSE x
                  /\ fvec' = IF accept THEN r.eqs ELSE fvec
                  /\ ier' = IF accept /\ IsZeroVec(r.eqs) THEN 1 ELSE 0
                  /\ pc' = IF accept /\ IsZeroVec(r.eqs) THEN "solved" ELSE "fsolve"
                  /\ exc' = exc
    /\ nfev' = nfev + 1
    /\ UNCHANGED <<call, ret>>

\* hybrd gives up or finds its step bound small enough
fsolveStop ==
    /\ pc = "fsolve" /\ nfev > 1
    /\ \E info \in Flags :
         /\ info = 1 => IsFiniteVec(fvec)
         /\ info = 2 => nfev = MaxFev
         /\ ier' = info
    /\ pc' = "solved"
    /\ UNCHANGED <<call, ret, Alpha, x, fvec, trial, ftrial, nfev, exc>>

\* lines 375-376: fsolve's x is unpacked and returned; its flag is not asked for
ReturnBerrymann_sc ==
    /\ pc = "solved" /\ call.fn = "Berrymann_sc"
    /\ ret' = x
    /\ pc' = "idle"
    /\ UNCHANGED <<call, Alpha, x, fvec, trial, ftrial, nfev, ier, exc>>

\* lines 488-492
ReturnOConnell_Budiansky_fl ==
    /\ pc = "solved" /\ call.fn = "OConnell_Budiansky_fl"
    /\ ret' = OCSaturated(call.K0, call.G0, call.crd, x)
    /\ pc' = "idle"
    /\ UNCHANGED <<call, Alpha, x, fvec, trial, ftrial, nfev, ier, exc>>

CallHudson_ortho ==
    /\ pc = "idle" /\ call = NoCall
    /\ \E m \in MatrixPoints, k \in Kinds, np \in Booleans,
          alpha \in Sequences3(CrackAspects), crd \in Sequences3(CrackSets) :
         \E r \in {hudson_ortho(m[1], m[2], k[1], k[2], alpha, crd, np)} :
            /\ call' = [fn |-> "hudson_ortho", K |-> m[1], G |-> m[2], Ki |-> k[1],
                        Gi |-> k[2], alpha |-> alpha, crd |-> crd, np |-> np]
            /\ ret' = r.C
            /\ exc' = r.exc
    /\ UNCHANGED <<Alpha, pc, x, fvec, trial, ftrial, nfev, ier>>

CallJohnson ==
    /\ pc = "idle" /\ call = NoCall
    /\ \E m \in MatrixPoints, n \in Coordination, phi \in Porosities,
          epsilon \in Strains, epsilon_axial \in Strains, path \in Paths :
         \E r \in {johnson(m[1], m[2], n, phi, epsilon, epsilon_axial, path)} :
            /\ call' = [fn |-> "johnson", K0 |-> m[1], G0 |-> m[2], n |-> n, phi |-> phi,
                        epsilon |-> epsilon, epsilon_axial |-> epsilon_axial,
                        path |-> path]
            /\ ret' = r.ret
            /\ exc' = r.exc
    /\ UNCHANGED <<Alpha, pc, x, fvec, trial, ftrial, nfev, ier>>

CallCripor_reuss ==
    /\ pc = "idle" /\ call = NoCall
    /\ \E M0 \in PosModuli, Mf \in PosModuli, phic \in Fractions, den \in Booleans :
         \E r \in {cripor_reuss(M0, Mf, phic, den)} :
            /\ call' = [fn |-> "cripor_reuss", M0 |-> M0, Mf |-> Mf, phic |-> phic,
                        den |-> den]
            /\ ret' = r.ret
            /\ exc' = r.exc
    /\ UNCHANGED <<Alpha, pc, x, fvec, trial, ftrial, nfev, ier>>

CallZoeppritz ==
    /\ pc = "idle" /\ call = NoCall
    /\ \E vp1 \in Velocities_P, vp2 \in Velocities_P, vs1 \in Velocities_S,
          vs2 \in Velocities_S, rho1 \in Densities, rho2 \in Densities,
          angle \in Angles :
         \E r \in {zoeppritz(vp1, vs1, rho1, vp2, vs2, rho2, angle)} :
            /\ call' = [fn |-> "zoeppritz", vp1 |-> vp1, vs1 |-> vs1, rho1 |-> rho1,
                        vp2 |-> vp2, vs2 |-> vs2, rho2 |-> rho2, theta |-> angle]
            /\ ret' = <<r.Rpp, r.Rps>>
    /\ UNCHANGED <<Alpha, pc, x, fvec, trial, ftrial, nfev, ier, exc>>

\* VRH called with arrays of one element
CallVRH64 ==
    /\ pc = "idle" /\ call = NoCall
    /\ \E v \in SingleVolumes, m \in Singles :
         /\ call' = [fn |-> "VRH", volumes |-> <<v>>, M |-> <<m>>]
         /\ ret' = VRH64(<<v>>, <<m>>)
    /\ UNCHANGED <<Alpha, pc, x, fvec, trial, ftrial, nfev, ier, exc>>

CallHertzmindlin ==
    /\ pc = "idle" /\ call = NoCall
    /\ \E g \in Grains, phic \in CriticalPorosities, Cn \in CoordinationNumbers,
          sigma \in Stresses, f \in ShearFactors :
         /\ call' = [fn |-> "hertzmindlin", K0 |-> g[1], G0 |-> g[2], phic |-> phic,
                     Cn |-> Cn, sigma |-> sigma, f |-> f]
         /\ ret' = hertzmindlin(g[1], g[2], phic, Cn, sigma, f)
    /\ UNCHANGED <<Alpha, pc, x, fvec, trial, ftrial, nfev, ier, exc>>

CallSoftsand ==
    /\ pc = "idle" /\ call = NoCall
    /\ \E g \in Grains, phi \in SandPorosities, phic \in CriticalPorosities,
          Cn \in CoordinationNumbers, sigma \in Stresses, f \in ShearFactors :
         /\ call' = [fn |-> "softsand", K0 |-> g[1], G0 |-> g[2], phi |-> phi,
                     phic |-> phic, Cn |-> Cn, sigma |-> sigma, f |-> f]
         /\ ret' = softsand(g[1], g[2], phi, phic, Cn, sigma, f)
    /\ UNCHANGED <<Alpha, pc, x, fvec, trial, ftrial, nfev, ier, exc>>

\* HS called with Python floats, K1 # K2 and G1 # G2
CallHS64 ==
    /\ pc = "idle" /\ call = NoCall
    /\ \E f \in StiffFractions, K \in BulkPairs, G \in ShearPairs,
          bound \in BoundNames :
         /\ call' = [fn |-> "HS", f |-> f, K1 |-> K[1], K2 |-> K[2], G1 |-> G[1],
                     G2 |-> G[2], bound |-> bound]
         /\ ret' = HS64(f, K[1], K[2], G[1], G[2], bound)
    /\ UNCHANGED <<Alpha, pc, x, fvec, trial, ftrial, nfev, ier, exc>>

CallContactcement ==
    /\ pc = "idle" /\ call = NoCall
    /\ \E g \in Grains, c \in Cements, v \in CementFractions,
          Cn \in CoordinationNumbers, scheme \in Schemes :
         /\ call' = [fn |-> "contactcement", K0 |-> g[1], G0 |-> g[2], Kc |-> c[1],
                     Gc |-> c[2], phi |-> F64Sub(Dec(4, 10), v), phic |-> Dec(4, 10),
                     Cn |-> Cn, scheme |-> scheme]
         /\ ret' = contactcement(g[1], g[2], c[1], c[2], F64Sub(Dec(4, 10), v),
                                 Dec(4, 10), Cn, scheme)
    /\ UNCHANGED <<Alpha, pc, x, fvec, trial, ftrial, nfev, ier, exc>>

\* MUHS called as pcm calls it, with phi = phic - v_cem and phi_b = phic - v_ci
CallMUHS ==
    /\ pc = "idle" /\ call = NoCall
    /\ \E g \in Grains, c \in Cements, v \in CementSteps,
          Cn \in CoordinationNumbers, scheme \in Schemes :
         /\ call' = [fn |-> "MUHS", K0 |-> g[1], G0 |-> g[2], Kc |-> c[1],
                     Gc |-> c[2], phi |-> F64Sub(Dec(4, 10), v[1]),
                     phi_b |-> F64Sub(Dec(4, 10), v[2]), phic |-> Dec(4, 10),
                     Cn |-> Cn, scheme |-> scheme]
         /\ ret' = MUHS(g[1], g[2], c[1], c[2], F64Sub(Dec(4, 10), v[1]),
                        F64Sub(Dec(4, 10), v[2]), Dec(4, 10), Cn, scheme)
    /\ UNCHANGED <<Alpha, pc, x, fvec, trial, ftrial, nfev, ier, exc>>

\* pcm for quartz cement at 20 MPa, half of the rock cemented
CallPcm ==
    /\ pc = "idle" /\ call = NoCall
    /\ \E g \in Grains, v \in CementSteps, mode \in Modes :
         /\ call' = [fn |-> "pcm", f |-> Dec(1, 2), sigma |-> F64(20), K0 |-> g[1],
                     G0 |-> g[2], phi |-> Dec(3, 10), phic |-> Dec(4, 10),
                     v_cem |-> v[1], v_ci |-> v[2], Kc |-> Dec(366, 10),
                     Gc |-> F64(45), Cn |-> F64(9), mode |-> mode, scheme |-> 2,
                     f_ |-> Dec(1, 2)]
         /\ ret' = pcm(Dec(1, 2), F64(20), g[1], g[2], Dec(3, 10), Dec(4, 10),
                       v[1], v[2], Dec(366, 10), F64(45), F64(9), mode, 2, Dec(1, 2))
    /\ UNCHANGED <<Alpha, pc, x, fvec, trial, ftrial, nfev, ier, exc>>

CallHudson ==
    /\ pc = "idle" /\ call = NoCall
    /\ \E m \in MatrixPoints, k \in CrackFills, crd \in CrackDensities,
          order \in Orders, axis \in Axes :
         \E r \in {hudson(m[1], m[2], k[1], k[2], CrackAspect, crd, order, axis)} :
            /\ call' = [fn |-> "hudson", K |-> m[1], G |-> m[2], Ki |-> k[1],
                        Gi |-> k[2], alpha |-> CrackAspect, crd |-> crd,
                        order |-> order, axis |-> axis]
            /\ ret' = r.C
            /\ exc' = r.exc
    /\ UNCHANGED <<Alpha, pc, x, fvec, trial, ftrial, nfev, ier>>

CallDigby ==
    /\ pc = "idle" /\ call = NoCall
    /\ \E m \in MatrixPoints, phi \in DigbyPorosities, Cn \in DigbyCoordination,
          sigma \in DigbyStresses, a_R \in BondRatios :
         /\ call' = [fn |-> "Digby", K0 |-> m[1], G0 |-> m[2], phi |-> phi,
                     Cn |-> Cn, sigma |-> sigma, a_R |-> a_R]
         /\ ret' = Digby(m[1], m[2], phi, Cn, sigma, a_R)
    /\ UNCHANGED <<Alpha, pc, x, fvec, trial, ftrial, nfev, ier, exc>>

Next ==
    \/ CallVRH
    \/ CallHS
    \/ CallOConnell_Budiansky
    \/ CallPQ_vectorize
    \/ CallBerrymann_sc
    \/ RecallBerrymann_sc
    \/ CallOConnell_Budiansky_fl
    \/ fsolveStart
    \/ fsolveEval
    \/ fsolveStop
    \/ ReturnBerrymann_sc
    \/ ReturnOConnell_Budiansky_fl
    \/ CallHudson_ortho
    \/ CallJohnson
    \/ CallCripor_reuss
    \/ CallZoeppritz
    \/ CallVRH64
    \/ CallHertzmindlin
    \/ CallSoftsand
    \/ CallHS64
    \/ CallContactcement
    \/ CallMUHS
    \/ CallPcm
    \/ CallHudson
    \/ CallDigby

Spec == Init /\ [][Next]_vars

\* one function at a time
SpecVRH == Init /\ [][CallVRH]_vars

SpecHS == Init /\ [][CallHS]_vars

SpecOC == Init /\ [][CallOConnell_Budiansky]_vars

SpecPQ == Init /\ [][CallPQ_vectorize]_vars

NextSC ==
    CallBerrymann_sc \/ RecallBerrymann_sc \/ fsolveStart \/ fsolveEval \/ fsolveStop \/ ReturnBerrymann_sc

SpecSC == Init /\ [][NextSC]_vars

\* the two callers of fsolve
NextSolve ==
    \/ CallBerrymann_sc
    \/ RecallBerrymann_sc
    \/ CallOConnell_Budiansky_fl
    \/ fsolveStart
    \/ fsolveEval
    \/ fsolveStop
    \/ ReturnBerrymann_sc
    \/ ReturnOConnell_Budiansky_fl

SpecSolve == Init /\ [][NextSolve]_vars

\* fsolve's steps and the statements that follow its return
SolverStep == fsolveStart \/ fsolveEval \/ fsolveStop

ReturnStep == ReturnBerrymann_sc \/ ReturnOConnell_Budiansky_fl

\* fsolve runs in the caller's thread: once entered it keeps taking steps, and
\* the statement after it runs once it has returned. Which step it takes is
\* decided by the numbers, so the steps are fair only as a whole. Nothing
\* obliges the caller to call again. The two conjuncts are WF_vars(SolverStep)
\* and WF_vars(ReturnStep) with ENABLED written out: a solver step is possible
\* exactly when pc = "fsolve" (the first evaluation at nfev = 0, a rejected
\* trial below MaxFev, flag 2 at MaxFev), a return exactly when pc = "solved".
FairSolve ==
    /\ SpecSolve
    /\ []<>(pc # "fsolve") \/ []<><<SolverStep>>_vars
    /\ []<>(pc # "solved") \/ []<><<ReturnStep>>_vars

SpecHudson == Init /\ [][CallHudson_ortho]_vars

SpecJohnson == Init /\ [][CallJohnson]_vars

\* cripor_reuss and the function it calls
SpecCripor == Init /\ [][CallCripor_reuss \/ CallVRH]_vars

SpecZoeppritz == Init /\ [][CallZoeppritz]_vars

SpecVRH64 == Init /\ [][CallVRH64]_vars

SpecSand == Init /\ [][CallHertzmindlin \/ CallSoftsand]_vars

SpecHS64 == Init /\ [][CallHS64]_vars

SpecCement == Init /\ [][CallContactcement \/ CallMUHS]_vars

\* the functions with a two-way selector
SpecSelect == Init /\ [][CallHS64 \/ CallContactcement \/ CallPcm]_vars

SpecHudsonSet == Init /\ [][CallHudson]_vars

SpecDigby == Init /\ [][CallDigby]_vars

-----------------------------------------------------------------------------
(* Properties of VRH *)

\* a call of VRH with non-negative volume fractions that sum to 1 and positive
\* moduli
C4_ValidMixture ==
    /\ call.fn = "VRH"
    /\ Sum(call.volumes) = One
    /\ \A i \in 1..Len(call.M) : Less(Zero, call.M[i])

C5_Products(c) == [i \in 1..Len(c.M) |-> Mul(c.volumes[i], c.M[i])]

C5_Quotients(c) == [i \in 1..Len(c.M) |-> Div(c.volumes[i], c.M[i])]

\* C5: VRH returns (Voigt, Reuss, Hill) in that order, with Voigt the sum of
\* volumes_i*M_i, Reuss the inverse of the sum of volumes_i/M_i and Hill their
\* mean, for every pair of inputs of equal length, whatever the volumes sum to.
C5_TripleAsStated ==
    call.fn = "VRH" =>
        LET Voigt == Sum(C5_Products(call))
            Reuss == Div(One, Sum(C5_Quotients(call)))
            Hill == Div(Add(Voigt, Reuss), Num(2))
        IN  ret = <<Voigt, Reuss, Hill>>

\* a call whose volumes do not sum to 1 and that returned three distinct numbers
C5_Witness ==
    /\ call.fn = "VRH"
    /\ Sum(call.volumes) # One
    /\ IsFinite(ret[1]) /\ IsFinite(ret[2]) /\ IsFinite(ret[3])
    /\ Less(ret[2], ret[3])
    /\ Less(ret[3], ret[1])

-----------------------------------------------------------------------------
(* Properties of HS *)

\* both moduli of a result are numbers
C6_Defined(r) == IsFinite(r[1]) /\ IsFinite(r[2])

\* the bound a call did not ask for
C6_Other(bound) == IF bound = "upper" THEN "lower" ELSE "upper"

\* C6: for every input with K1 >= K2, G1 >= G2 (equality included) and f in
\* [0, 1], the upper bound is at least the lower bound for both K and G, and
\* both bounds are defined.  Stated here for phases of positive shear modulus.
C6_UpperAboveLower ==
    (/\ call.fn = "HS"
     /\ Leq(call.K2, call.K1)
     /\ Leq(call.G2, call.G1)
     /\ Less(Zero, call.G2)) =>
        LET other == HS(call.f, call.K1, call.K2, call.G1, call.G2,
                        C6_Other(call.bound), call.np)
            upper == IF call.bound = "upper" THEN ret ELSE other
            lower == IF call.bound = "upper" THEN other ELSE ret
        IN  /\ C6_Defined(upper)
            /\ C6_Defined(lower)
            /\ Leq(lower[1], upper[1])
            /\ Leq(lower[2], upper[2])

\* a call with two phases of equal bulk modulus, K1 = K2, and G1 > G2 > 0
C6_Witness ==
    /\ call.fn = "HS"
    /\ call.K1 = call.K2
    /\ Less(call.G2, call.G1)
    /\ Less(Zero, call.G2)

\* the expressions of the upper bound, for phase 1 weighted f
C7_Upper(f, K1, K2, G1, G2, np) ==
    LET Temp == Quot(Add(K1, Mul(Num(2), G1)),
                     Mul(Mul(Num(5), G1), Add(K1, Quot(Mul(Num(4), G1), Num(3), np))), np)
        K == Add(K1, Quot(Sub(One, f),
                 Add(Quot(One, Sub(K2, K1), np),
                     Mul(f, Quot(One, Add(K1, Quot(Mul(Num(4), G1), Num(3), np)), np))), np))
        G == Add(G1, Quot(Sub(One, f),
                 Add(Quot(One, Sub(G2, G1), np), Mul(Mul(Num(2), f), Temp)), np))
    IN  IF ~np /\ (IsNaN(K) \/ IsNaN(G)) THEN <<NaN, NaN>> ELSE <<K, G>>

\* C7: with bound 'upper' HS evaluates K = K1 + (1-f)/((K2-K1)^-1 +
\* f(K1+4G1/3)^-1) and G = G1 + (1-f)/((G2-G1)^-1 + 2f*Temp), Temp =
\* (K1+2G1)/(5G1(K1+4G1/3)); with 'lower' the same expressions with phases 1 and
\* 2 swapped and f swapped with 1-f; the phases are neither checked nor
\* reordered by stiffness.
C7_FormulasAsStated ==
    call.fn = "HS" =>
        ret = IF call.bound = "upper"
              THEN C7_Upper(call.f, call.K1, call.K2, call.G1, call.G2, call.np)
              ELSE C7_Upper(Sub(One, call.f), call.K2, call.K1, call.G2, call.G1, call.np)

\* a lower bound asked for with the softer phase first, and computed
C7_Witness ==
    /\ call.fn = "HS"
    /\ call.bound = "lower"
    /\ Less(call.K1, call.K2)
    /\ Less(call.G1, call.G2)
    /\ Less(Zero, call.f) /\ Less(call.f, One)
    /\ C6_Defined(ret)
    /\ ret # HS(call.f, call.K2, call.K1, call.G2, call.G1, "lower", call.np)

-----------------------------------------------------------------------------
(* Properties of PQ_vectorize *)

\* C1: PQ_vectorize leaves the caller's aspect-ratio array unchanged: after the
\* call the array holds what it held before, entries equal to 1 included.
C1_AlphaUnchanged == call.fn = "PQ_vectorize" => Alpha = call.alpha

\* a call whose array has an entry equal to 1
C1_Witness == call.fn = "PQ_vectorize" /\ \E i \in 1..Len(call.alpha) : call.alpha[i] = One

\* the closed forms of a spherical inclusion
C2_ClosedForm(Km, Gm, Ki, Gi) ==
    LET zeta == Div(Mul(Div(Gm, Num(6)), Add(Mul(Num(9), Km), Mul(Num(8), Gm))),
                    Add(Km, Mul(Num(2), Gm)))
        third == Div(Mul(Num(4), Gm), Num(3))
    IN  <<Div(Add(Km, third), Add(Ki, third)), Div(Add(Gm, zeta), Add(Gi, zeta))>>

\* C2: for every phase whose aspect ratio is exactly 1 the returned P and Q are
\* the spherical closed forms P = (Km+4Gm/3)/(Ki+4Gm/3) and Q =
\* (Gm+zeta)/(Gi+zeta), zeta = Gm/6*(9Km+8Gm)/(Km+2Gm), not the general formula
\* at the aspect ratio 0.999.
C2_SphericalClosedForm ==
    call.fn = "PQ_vectorize" =>
        \A i \in 1..Len(call.alpha) :
            call.alpha[i] = One =>
                <<ret[1][i], ret[2][i]>> = C2_ClosedForm(call.Km, call.Gm, call.Ki[i], call.Gi[i])

\* a spherical phase softer than the matrix it sits in
C2_Witness ==
    /\ call.fn = "PQ_vectorize"
    /\ \E i \in 1..Len(call.alpha) :
         call.alpha[i] = One /\ Less(call.Ki[i], call.Km) /\ Less(call.Gi[i], call.Gm)

-----------------------------------------------------------------------------
(* Properties of the self-consistent solvers *)

\* a solver call has returned and its root finder had not converged
C3_Unconverged ==
    /\ pc = "idle"
    /\ call.fn \in {"Berrymann_sc", "OConnell_Budiansky_fl"}
    /\ ier # 1

\* the answer made of the root finder's last iterate
C3_FromLastIterate ==
    IF call.fn = "Berrymann_sc" THEN x ELSE OCSaturated(call.K0, call.G0, call.crd, x)

\* C3: when the root finder of Berrymann_sc or OConnell_Budiansky_fl does not
\* converge, the caller gets a distinguishable failure and never the last
\* iterate as if it were a valid result.
C3_FailureSurfaced == C3_Unconverged => ret # C3_FromLastIterate

\* Berrymann_sc has returned after fsolve ran out of evaluations
C3_Witness == C3_Unconverged /\ call.fn = "Berrymann_sc" /\ ier = 2

\* a Berrymann_sc call whose four arrays have one length
C8_SameLengths ==
    /\ call.fn = "Berrymann_sc"
    /\ Len(call.G) = Len(call.K) /\ Len(call.X) = Len(call.K)
    /\ Len(call.Alpha) = Len(call.K)

\* all phases of a Berrymann_sc call have the moduli of the first
C8_Identical ==
    /\ C8_SameLengths
    /\ \A i \in 1..Len(call.K) : call.K[i] = call.K[1] /\ call.G[i] = call.G[1]

\* the solve starts at (K0, G0), finds both residuals zero there and stops, and
\* (K0, G0) is what the call returns
C8_AtFixedPoint ==
    /\ x = <<call.K[1], call.G[1]>>
    /\ nfev >= 1 => fvec = <<Zero, Zero>> /\ nfev = 1 /\ ier = 1
    /\ pc = "idle" => ret = <<call.K[1], call.G[1]>>

RECURSIVE C9_Eq(_, _, _, _, _)
C9_Eq(X, M, m, F, n) ==
    IF n = 0 THEN Zero
    ELSE Add(C9_Eq(X, M, m, F, n - 1), Mul(X[n], Mul(Sub(M[n], m), F[n])))

\* C9: the residual at a trial point (K_sc, G_sc) is eq1 = sum X_i (K_i - K_sc)
\* P_i, eq2 = sum X_i (G_i - G_sc) Q_i with P, Q from PQ_vectorize at matrix
\* moduli (K_sc, G_sc); and the solve starts from the unweighted arithmetic
\* means of the K_i and of the G_i.
C9_ResidualAndStart ==
    C8_SameLengths =>
        LET n == Len(call.K)
            pq == PQ_vectorize(trial[1], trial[2], call.K, call.G, Alpha)
        IN  /\ nfev = 0 => Mul(Num(n), x[1]) = Sum(call.K) /\ Mul(Num(n), x[2]) = Sum(call.G)
            /\ nfev = 1 => Mul(Num(n), trial[1]) = Sum(call.K)
                           /\ Mul(Num(n), trial[2]) = Sum(call.G)
            /\ nfev >= 1 => ftrial = <<C9_Eq(call.X, call.K, trial[1], pq.P, n),
                                       C9_Eq(call.X, call.G, trial[2], pq.Q, n)>>

\* two different phases in unequal fractions, the residual evaluated away from
\* the starting point and neither zero nor undefined there
C9_Witness ==
    /\ C8_SameLengths
    /\ Len(call.K) = 2
    /\ call.K[1] # call.K[2]
    /\ call.X[1] # call.X[2]
    /\ nfev >= 2
    /\ trial # InitialGuess(call.K, call.G)
    /\ IsFiniteVec(ftrial)
    /\ ftrial[1] # Zero /\ ftrial[2] # Zero

\* a Berrymann_sc call whose arrays K, G, X and Alpha are not of one length
C14_Mismatched == call.fn = "Berrymann_sc" /\ ~C8_SameLengths

\* C14: mismatched lengths across K, G, X and Alpha passed to Berrymann_sc
\* always reach the caller as an error; none is absorbed into a numeric result,
\* for example by broadcasting an array of length 1.
C14_MismatchRaises == (C14_Mismatched /\ pc = "idle") => exc # "none"

\* a call with two phases and a single volume fraction has returned
C14_Witness ==
    /\ C14_Mismatched
    /\ Len(call.K) = 2 /\ Len(call.G) = 2 /\ Len(call.Alpha) = 2 /\ Len(call.X) = 1
    /\ pc = "idle"

\* the points the residual function is compared at: the starting point and the
\* trial points of the root finder
C15_Probes == SCTrials \cup {InitialGuess(call.K, call.G)}

\* the function handed to fsolve is the same function whether the array Alpha
\* holds what the caller first passed or what earlier evaluations left in it
C15_SameFunction ==
    \A p \in C15_Probes :
        Berrymann_func(p, call.K, call.G, call.X, call.Alpha).eqs
            = Berrymann_func(p, call.K, call.G, call.X, Alpha).eqs

\* C15: Berrymann_sc carries no state from one call to the next: a second call
\* with the same K, G, X and Alpha array objects, entries of Alpha equal to 1
\* included, starts from the same point and solves the same function, hence
\* returns the same (K_sc, G_sc), and every evaluation of PQ_vectorize within
\* a solve is handed the aspect ratios the caller passed.
C15_NoCarriedState ==
    C8_SameLengths =>
        /\ Alpha = call.Alpha
        /\ nfev = 0 => x = InitialGuess(call.K, call.G)
        /\ (call.round = 2 /\ nfev = 0) => C15_SameFunction

\* the second call with an array that held an entry equal to 1 is being solved
C15_Witness ==
    /\ C8_SameLengths
    /\ call.round = 2
    /\ \E i \in 1..Len(call.Alpha) : call.Alpha[i] = One
    /\ Alpha # call.Alpha
    /\ nfev >= 2
    /\ IsFiniteVec(ftrial)

-----------------------------------------------------------------------------
(* Properties of OConnell_Budiansky *)

\* C10: for K0 > 0 and G0 >= 0, OConnell_Budiansky with crack density 0 returns
\* (K0, G0) exactly.
C10_NoCracks ==
    (call.fn = "OConnell_Budiansky" /\ call.crd = Zero) => ret = <<call.K0, call.G0>>

\* a call without cracks in a background of zero shear modulus
C10_Witness == call.fn = "OConnell_Budiansky" /\ call.crd = Zero /\ call.G0 = Zero

-----------------------------------------------------------------------------
(* Properties of hudson_ortho *)

\* C19: whenever alpha or crd is passed as a Python list, hudson_ortho raises
\* the exception "need python array as input for alpha and crd" (and so returns
\* no stiffness).
C19_ListRejected ==
    (call.fn = "hudson_ortho" /\ (call.alpha.type = "list" \/ call.crd.type = "list"))
        => exc = NeedArray

\* a call that passed its crack densities as a list has ended
C19_Witness ==
    call.fn = "hudson_ortho" /\ call.crd.type = "list" /\ call.alpha.type = "ndarray"

-----------------------------------------------------------------------------
(* Properties of johnson *)

\* C18: for each of the three documented values of path, 'together', 'uni_iso'
\* and 'iso_uni', johnson returns the triple (C, sigma33, sigma11).
C18_DocumentedPaths ==
    (call.fn = "johnson" /\ call.path \in DocumentedPaths)
        => (exc = "none" /\ Len(ret) = 3)

\* a call with the third documented path has ended
C18_Witness == call.fn = "johnson" /\ call.path = "iso_uni"

-----------------------------------------------------------------------------
(* Properties of cripor_reuss *)

\* a call of cripor_reuss with 0 < phic < 1 (the moduli of the model are positive)
C17_Valid == call.fn = "cripor_reuss" /\ Less(Zero, call.phic) /\ Less(call.phic, One)

\* C17: for M0, Mf > 0 and 0 < phic < 1, cripor_reuss with den=False returns the
\* Reuss average 1/((1-phic)/M0 + phic/Mf) and with den=True the Voigt average
\* (1-phic)*M0 + phic*Mf.
C17_ReussOrVoigt ==
    C17_Valid =>
        /\ exc = "none"
        /\ ret = IF call.den
                 THEN Add(Mul(Sub(One, call.phic), call.M0), Mul(call.phic, call.Mf))
                 ELSE Div(One, Add(Div(Sub(One, call.phic), call.M0),
                                   Div(call.phic, call.Mf)))

\* a call with den=False and an interior critical porosity has ended
C17_Witness == C17_Valid /\ ~call.den /\ call.M0 # call.Mf

\* C16: every invocation of Berrymann_sc and of OConnell_Budiansky_fl comes
\* back to the caller, and no solve evaluates its residual more often than the
\* bound on evaluations allows.
C16_Returns ==
    /\ [](nfev <= MaxFev)
    /\ (pc = "fsolve") ~> (pc = "idle")

\* a call that came back only because the evaluations were used up
C16_Witness ==
    /\ pc = "idle" /\ exc = "none"
    /\ call.fn \in {"Berrymann_sc", "OConnell_Budiansky_fl"}
    /\ nfev = MaxFev /\ ier = 2 /\ ret # <<>>


\* the subtracted term as documented: the inverse hyperbolic cosine
C13_StatedProlate(a) ==
    FxMul(FxDiv(a, FxPow32(FxMul(a, a) - Scale)),
          FxMul(a, FxSqrt(FxMul(a, a) - Scale)) - C13_Arccosh(a))

C13_StatedOblate(a) ==
    FxMul(FxDiv(a, FxPow32(Scale - FxMul(a, a))),
          FxArccos(a) - FxMul(a, FxSqrt(Scale - FxMul(a, a))))

\* the entries of the array PQ_vectorize was called with that lie above 1
C13_Prolate == {i \in 1..Len(call.alpha) : Less(One, call.alpha[i])}

C13_Oblate == {i \in 1..Len(call.alpha) : Less(call.alpha[i], One)}

\* C13: for an aspect ratio above 1 PQ_vectorize takes theta as
\* alpha/(alpha^2-1)^1.5 * (alpha*sqrt(alpha^2-1) - arccosh(alpha)), and for one
\* below 1 as alpha/(1-alpha^2)^1.5 * (arccos(alpha) - alpha*sqrt(1-alpha^2)).
C13_ThetaAsStated ==
    (call.fn = "PQ_vectorize" /\ exc = "none") =>
        /\ \A i \in C13_Prolate : theta(Alpha[i]) = C13_StatedProlate(Fx(call.alpha[i]))
        /\ \A i \in C13_Oblate : theta(Alpha[i]) = C13_StatedOblate(Fx(call.alpha[i]))

\* PQ_vectorize has returned P and Q for a prolate and an oblate phase
C13_Witness ==
    /\ call.fn = "PQ_vectorize" /\ exc = "none"
    /\ C13_Prolate # {} /\ C13_Oblate # {}
    /\ \A i \in 1..Len(ret[1]) : IsFinite(ret[1][i]) /\ IsFinite(ret[2][i])


-----------------------------------------------------------------------------
(* Properties of zoeppritz *)

\* C12: a function that takes its angle in degrees applies its trigonometric
\* functions to the angle converted to radians only; zoeppritz computes its
\* ray parameter as p = sin(theta)/vp1 from the converted angle.
C12_RayParameter ==
    call.fn = "zoeppritz" =>
        zoeppritz(call.vp1, call.vs1, call.rho1, call.vp2, call.vs2, call.rho2,
                  call.theta).p
            = FxDiv(FxSin(deg2rad(call.theta)), call.vp1)

\* zoeppritz has returned numbers for an oblique incidence
C12_Witness ==
    /\ call.fn = "zoeppritz" /\ call.theta # 0
    /\ IsFinite(ret[1]) /\ IsFinite(ret[2])

-----------------------------------------------------------------------------
(* Properties of VRH in doubles *)

\* VRH was called with one phase of volume fraction 1
C20_SinglePhase ==
    call.fn = "VRH" /\ Len(call.M) = 1 /\ call.volumes = <<F64(1)>>

\* C20: called with a single phase of volume fraction 1 and modulus M > 0, VRH
\* returns Voigt, Reuss and Hill all equal to M, to the last bit.
C20_AllEqualM == C20_SinglePhase => ret = <<call.M[1], call.M[1], call.M[1]>>

\* a single phase for which VRH returned the modulus as its Voigt average
C20_Witness == C20_SinglePhase /\ ret[1] = call.M[1] /\ ret[3] = call.M[1]

-----------------------------------------------------------------------------
(* Properties of softsand *)

\* softsand was called at the critical porosity
C11_AtCritical == call.fn = "softsand" /\ call.phi = call.phic

\* C11: at phi = phic softsand returns the two moduli of hertzmindlin for the
\* same grain, critical porosity, coordination number, stress and shear factor,
\* to the last bit.
C11_EqualsHertzMindlin ==
    C11_AtCritical =>
        ret = hertzmindlin(call.K0, call.G0, call.phic, call.Cn, call.sigma, call.f)

\* softsand at the critical porosity has returned the bulk modulus of
\* hertzmindlin
C11_Witness ==
    /\ C11_AtCritical
    /\ ret[1] = hertzmindlin(call.K0, call.G0, call.phic, call.Cn, call.sigma, call.f)[1]

-----------------------------------------------------------------------------
(* Properties of HS at the end points of the volume fraction *)

\* HS was called with floats and the whole volume taken by one phase
C26_EndPoint == call.fn = "HS" /\ call.f \in {F64(0), F64(1)} /\ "np" \notin DOMAIN call

\* C26: with f = 1 HS returns (K1, G1) and with f = 0 it returns (K2, G2), for
\* the upper and for the lower bound, when K1 # K2 and G1 # G2.
C26_PurePhases ==
    C26_EndPoint =>
        ret = IF call.f = F64(1) THEN <<call.K1, call.G1>> ELSE <<call.K2, call.G2>>

\* an end point whose branch adds a zero quotient to the phase's own moduli
C26_Witness ==
    /\ C26_EndPoint
    /\ (call.bound = "upper") = (call.f = F64(1))
    /\ ret = IF call.f = F64(1) THEN <<call.K1, call.G1>> ELSE <<call.K2, call.G2>>

-----------------------------------------------------------------------------
(* Properties of the cemented end member *)

\* MUHS was called at the porosity of its high-porosity end member
C25_AtEndMember == call.fn = "MUHS" /\ call.phi = call.phi_b

\* C25: at phi = phi_b MUHS returns the two moduli of contactcement for phi_b,
\* to the last bit.
C25_Continuous ==
    C25_AtEndMember =>
        ret = contactcement(call.K0, call.G0, call.Kc, call.Gc, call.phi_b,
                            call.phic, call.Cn, call.scheme)

\* MUHS at phi = phi_b has returned moduli of a cemented rock
C25_Witness == C25_AtEndMember /\ Len(ret) = 2 /\ ret[1].sign = 1 /\ ret[2].sign = 1

-----------------------------------------------------------------------------
(* Properties of the two-way selectors of HS, contactcement and pcm *)

\* HS was called with floats
C21_CalledHS == call.fn = "HS" /\ "np" \notin DOMAIN call

\* the call returned a pair of moduli and raised nothing
C21_Returned == exc = "none" /\ Len(ret) = 2

\* C21: a selector outside the documented set raises no error and runs the
\* second branch: HS with a bound other than 'upper' returns the lower bound,
\* contactcement with a scheme other than 1 uses the formula of scheme 2, and
\* pcm with a mode other than 'stiff' uses the soft mixing.
C21_SecondBranch ==
    /\ (C21_CalledHS /\ call.bound # "upper") =>
          /\ C21_Returned
          /\ ret = HS64(call.f, call.K1, call.K2, call.G1, call.G2, "lower")
    /\ (call.fn = "contactcement" /\ call.scheme # 1) =>
          /\ C21_Returned
          /\ ret = contactcement(call.K0, call.G0, call.Kc, call.Gc, call.phi,
                                 call.phic, call.Cn, 2)
    /\ (call.fn = "pcm" /\ call.mode # "stiff") =>
          /\ C21_Returned
          /\ ret = pcm(call.f, call.sigma, call.K0, call.G0, call.phi, call.phic,
                       call.v_cem, call.v_ci, call.Kc, call.Gc, call.Cn, "soft",
                       call.scheme, call.f_)

\* pcm has returned for a mode that is neither 'stiff' nor 'soft'
C21_Witness ==
    call.fn = "pcm" /\ call.mode \notin {"stiff", "soft"} /\ C21_Returned

-----------------------------------------------------------------------------
(* Properties of hudson *)

\* C22: hudson returns a stiffness matrix exactly when order is 1 or 2 and axis
\* is 1 or 3; for any other order or axis the call fails on an unassigned
\* variable and returns nothing, the defaults order=1, axis=3 not being used.
C22_OnlyDocumented ==
    call.fn = "hudson" =>
        IF call.order \in {1, 2} /\ call.axis \in {1, 3}
        THEN exc = "none" /\ Len(ret) = 5
        ELSE exc = "UnboundLocalError" /\ ret = <<>>

\* hudson called with an order that is neither 1 nor 2 has failed
C22_Witness ==
    call.fn = "hudson" /\ call.order = 3 /\ call.axis = 3 /\ exc = "UnboundLocalError"

-----------------------------------------------------------------------------
(* Properties of PQ_vectorize for an inclusion of the matrix material *)

\* phase i of the call has the moduli of the matrix, both non-zero
C24_SameAsMatrix(i) ==
    /\ call.Ki[i] = call.Km /\ call.Gi[i] = call.Gm
    /\ call.Km # Zero /\ call.Gm # Zero

\* C24: for a phase with Ki = Km and Gi = Gm, both non-zero, PQ_vectorize
\* returns P_i = 1 and Q_i = 1 whatever the aspect ratio of the phase.
C24_UnitFactors ==
    (call.fn = "PQ_vectorize" /\ exc = "none") =>
        \A i \in 1..Len(call.Ki) :
            C24_SameAsMatrix(i) => ret[1][i] = One /\ ret[2][i] = One

\* a call with a prolate phase and a spherical phase of the matrix material
C24_Witness ==
    /\ call.fn = "PQ_vectorize" /\ exc = "none" /\ Len(call.Ki) = 2
    /\ C24_SameAsMatrix(1) /\ call.alpha[1] = <<2, 1>> /\ ret[1][1] = One
    /\ C24_SameAsMatrix(2) /\ call.alpha[2] = One /\ ret[2][2] = One

-----------------------------------------------------------------------------
(* Properties of Digby *)

\* Digby was called with a positive effective stress
C23_Loaded == call.fn = "Digby" /\ Less(Zero, call.sigma)

\* the load term of the call's cubic and its real root, on the grid
C23_Load ==
    DigbyLoad(Fx(call.G0), Fx(call.phi), Fx(call.Cn),
              FxDiv(Fx(call.sigma), 1000 * Scale), DigbyNu(Fx(call.K0), Fx(call.G0)))

C23_RealRoot ==
    RealRoot(FxMul(Fx(<<3, 2>>), FxMul(Fx(call.a_R), Fx(call.a_R))), C23_Load,
             0, 2 * Scale)

\* C23: for sigma > 0 Digby selects exactly one root of its cubic, the real
\* positive one, so that Keff and Geff hold exactly one value each; the real
\* part of a complex root is never selected.
C23_OneRoot ==
    C23_Loaded =>
        /\ Len(ret[1]) = 1 /\ Len(ret[2]) = 1
        /\ C23_RealRoot > 0
        /\ ret = DigbyFrom(Fx(call.G0), Fx(call.phi), Fx(call.Cn), Fx(call.a_R),
                           DigbyNu(Fx(call.K0), Fx(call.G0)), <<C23_RealRoot>>)

\* a loaded pack of grains with bonded contacts, one value of Keff returned
C23_Witness ==
    C23_Loaded /\ Less(Zero, call.a_R) /\ Len(ret[1]) = 1 /\ ret[1][1] > 0

====
